---- MODULE Spec2Model ----
(***************************************************************************)
(* Timeline optimistic-concurrency editing protocol of the wedding         *)
(* planning application: the Snap/Clamp engine (lib/timeline/snapping.ts)  *)
(* and the Reconciliation Service (app/api/weddings/[weddingId]/timeline/  *)
(* route.ts) over the persisted Wedding / TimelineLane / TimelineEvent     *)
(* rows.                                                                   *)
(*                                                                         *)
(* Instants are integers counting seconds from an arbitrary origin; the    *)
(* code's millisecond part is always removed together with the seconds, so *)
(* one second is the finest grain that any branch distinguishes.           *)
(***************************************************************************)
EXTENDS Integers, Sequences, FiniteSets, TLC

(***************************************************************************)
(* Program constants                                                       *)
(***************************************************************************)
SNAP_MINUTES == 1
MIN_DURATION_MINUTES == 1
SecondsPerMinute == 60
DefaultTimelineVersion == 0

(***************************************************************************)
(* Bounds of the model                                                     *)
(***************************************************************************)
\* sampled instants per minute (4: :00, :15, :30, :45)
SamplesPerMinute == 4
\* first minute of the editing window, counted from the origin
WindowStartMinute == 1
\* length of the editing window in minutes (24h +- 1h in production)
WindowMinutes == 2
\* publishes are started only while the version can stay <= MaxVersion
MaxVersion == 2
\* longest patchOps list of one publish request
MaxOps == 2

SampleStep == SecondsPerMinute \div SamplesPerMinute
MaxMinute == WindowStartMinute + WindowMinutes + 1
Instants == {k * SampleStep : k \in 0..(MaxMinute * SamplesPerMinute)}
MinuteInstants == {m * SecondsPerMinute : m \in 0..MaxMinute}

\* the worked example, in seconds after 2026-10-17T06:00:00Z:
\* event 06:45Z..08:00Z, window 2026-10-17T07:00Z..2026-10-18T07:00Z
ExampleStart == 45 * SecondsPerMinute
ExampleEnd == 120 * SecondsPerMinute
ExampleWindowStart == 60 * SecondsPerMinute
ExampleWindowEnd == ExampleWindowStart + 24 * 60 * SecondsPerMinute

(***************************************************************************)
(* lib/timeline/snapping.ts : pure time functions                          *)
(***************************************************************************)
\* JavaScript Math.round(num / den) for num >= 0, den > 0: halves round up
MathRound(num, den) == (2 * num + den) \div (2 * den)

\* luxon DateTime.minute: the minute-of-hour field of an instant
MinuteOfHour(t) == (t \div SecondsPerMinute) % 60

\* luxon dt.set({minute: m, second: 0, millisecond: 0})
SetMinuteZeroSeconds(t, m) ==
    (t \div (60 * SecondsPerMinute)) * (60 * SecondsPerMinute) + m * SecondsPerMinute

snapToMinute(date) ==
    LET minutes == MinuteOfHour(date)
        snappedMinutes == MathRound(minutes, SNAP_MINUTES) * SNAP_MINUTES
    IN  SetMinuteZeroSeconds(date, snappedMinutes)

\* min duration restored by pulling start back instead of pushing end
ensureMinDurationMovesStart(start, end) ==
    LET minDuration == MIN_DURATION_MINUTES * SecondsPerMinute
    IN  IF end - start < minDuration
        THEN [start |-> end - minDuration, end |-> end]
        ELSE [start |-> start, end |-> end]

ensureMinDuration(start, end) ==
    LET minDuration == MIN_DURATION_MINUTES * SecondsPerMinute
    IN  IF end - start < minDuration
        THEN [start |-> start, end |-> start + minDuration]
        ELSE [start |-> start, end |-> end]

\* the upper bound forgotten
clampToWindowLowOnly(date, windowStart, windowEnd) ==
    IF date < windowStart THEN windowStart ELSE date

clampToWindow(date, windowStart, windowEnd) ==
    IF date < windowStart THEN windowStart
    ELSE IF date > windowEnd THEN windowEnd
    ELSE date

NoError == "none"
EndAfterStartError == "Event end must be after start"

\* processEventTimes as one function: snap, min duration, clamp, validate
processEventTimes(start, end, windowStart, windowEnd) ==
    LET snappedStart == snapToMinute(start)
        snappedEnd   == snapToMinute(end)
        min          == ensureMinDuration(snappedStart, snappedEnd)
        clampedStart == clampToWindow(min.start, windowStart, windowEnd)
        clampedEnd   == clampToWindow(min.end, windowStart, windowEnd)
    IN  IF clampedEnd <= clampedStart
        THEN [start |-> clampedStart, end |-> clampedEnd, valid |-> FALSE,
              error |-> EndAfterStartError]
        ELSE [start |-> clampedStart, end |-> clampedEnd, valid |-> TRUE,
              error |-> NoError]


(***************************************************************************)
(* Persisted rows (prisma/migrations/.../migration.sql) and patch ops      *)
(***************************************************************************)
Weddings == {"w1", "w2"}
LaneIds == {"l1", "l2"}
EventIds == {"e1", "e2"}
Clients == {"c1", "c2"}

\* the editing window of a wedding, as PUT computes it before the op loop
WeddingWindow(w) ==
    [windowStartUtc |-> WindowStartMinute * SecondsPerMinute,
     windowEndUtc   |-> (WindowStartMinute + WindowMinutes) * SecondsPerMinute]

WS == WeddingWindow("w1").windowStartUtc
WE == WeddingWindow("w1").windowEndUtc

\* JavaScript Date.setSeconds(0, 0): seconds and milliseconds zeroed
SetSecondsZero(t) == (t \div SecondsPerMinute) * SecondsPerMinute

\* route.ts create_event: clamp start from below, end from above, then truncate
CreateEventTimes(startUtc, endUtc, windowStart, windowEnd) ==
    LET start == IF startUtc < windowStart THEN windowStart ELSE startUtc
        end   == IF endUtc > windowEnd THEN windowEnd ELSE endUtc
    IN  [start |-> SetSecondsZero(start), end |-> SetSecondsZero(end)]

\* route.ts update_event_time: the same clamp and truncation, written again
UpdateEventTimes(startUtc, endUtc, windowStart, windowEnd) ==
    LET start == IF startUtc < windowStart THEN windowStart ELSE startUtc
        end   == IF endUtc > windowEnd THEN windowEnd ELSE endUtc
    IN  [start |-> SetSecondsZero(start), end |-> SetSecondsZero(end)]

\* rows of one wedding, as findMany({where: {weddingId}}) returns them
RowsOf(table, w) == [id \in {x \in DOMAIN table : table[x].weddingId = w} |-> table[id]]

Insert(table, id, row) == [x \in DOMAIN table \cup {id} |-> IF x = id THEN row ELSE table[x]]
Remove(table, ids) == [x \in DOMAIN table \ ids |-> table[x]]

\* result of one Prisma call: ok = FALSE when the call throws
DbOk(ls, es) == [ok |-> TRUE, lanes |-> ls, events |-> es]
DbThrow(ls, es) == [ok |-> FALSE, lanes |-> ls, events |-> es]

\* a create that replaces the row already stored under the id
EventCreateReplaces(ls, es, id, row) ==
    IF row.laneId \notin DOMAIN ls
    THEN DbThrow(ls, es)
    ELSE DbOk(ls, Insert(es, id, row))

\* prisma.timelineEvent.create: primary key and lane foreign key are enforced
EventCreate(ls, es, id, row) ==
    IF id \in DOMAIN es \/ row.laneId \notin DOMAIN ls
    THEN DbThrow(ls, es)
    ELSE DbOk(ls, Insert(es, id, row))

\* prisma.timelineEvent.update({where: {id}}): throws when no row has the id
EventUpdateTimes(ls, es, id, t) ==
    IF id \notin DOMAIN es THEN DbThrow(ls, es)
    ELSE DbOk(ls, [es EXCEPT ![id].startUtc = t.start, ![id].endUtc = t.end])

EventUpdateLane(ls, es, id, laneId) ==
    IF id \notin DOMAIN es \/ laneId \notin DOMAIN ls THEN DbThrow(ls, es)
    ELSE DbOk(ls, [es EXCEPT ![id].laneId = laneId])

EventUpdateTitle(ls, es, id, title) ==
    IF id \notin DOMAIN es THEN DbThrow(ls, es)
    ELSE DbOk(ls, [es EXCEPT ![id].title = title])

EventUpdateOwner(ls, es, id, owner) ==
    IF id \notin DOMAIN es THEN DbThrow(ls, es)
    ELSE DbOk(ls, [es EXCEPT ![id].assignedOwnerName = owner])

\* prisma.timelineEvent.delete({where: {id}})
EventDelete(ls, es, id) ==
    IF id \notin DOMAIN es THEN DbThrow(ls, es)
    ELSE DbOk(ls, Remove(es, {id}))

\* prisma.timelineEvent.deleteMany({where: {laneId}}): never throws
EventDeleteMany(ls, es, laneId) ==
    DbOk(ls, Remove(es, {x \in DOMAIN es : es[x].laneId = laneId}))

\* prisma.timelineLane.create
LaneCreate(ls, es, id, row) ==
    IF id \in DOMAIN ls THEN DbThrow(ls, es)
    ELSE DbOk(Insert(ls, id, row), es)

\* prisma.timelineLane.update
LaneUpdate(ls, es, id, name) ==
    IF id \notin DOMAIN ls THEN DbThrow(ls, es)
    ELSE DbOk([ls EXCEPT ![id].name = name], es)

\* prisma.timelineLane.delete; TimelineEvent_laneId_fkey is ON DELETE CASCADE
LaneDelete(ls, es, id) ==
    IF id \notin DOMAIN ls THEN DbThrow(ls, es)
    ELSE DbOk(Remove(ls, {id}), Remove(es, {x \in DOMAIN es : es[x].laneId = id}))

\* applyPatchOp: the Prisma call (the first one, for delete_lane) of one op
applyPatchOp(ls, es, weddingId, op, windowStartUtc, windowEndUtc) ==
    CASE op.op = "create_event" ->
            LET t == CreateEventTimes(op.startUtc, op.endUtc, windowStartUtc, windowEndUtc)
            IN  EventCreate(ls, es, op.id,
                    [weddingId |-> weddingId, laneId |-> op.laneId, title |-> op.title,
                     startUtc |-> t.start, endUtc |-> t.end,
                     assignedOwnerName |-> "Couple", locked |-> op.locked])
      [] op.op = "update_event_time" ->
            EventUpdateTimes(ls, es, op.eventId,
                UpdateEventTimes(op.startUtc, op.endUtc, windowStartUtc, windowEndUtc))
      [] op.op = "update_event_lane" -> EventUpdateLane(ls, es, op.eventId, op.laneId)
      [] op.op = "update_event_title" -> EventUpdateTitle(ls, es, op.eventId, op.title)
      [] op.op = "update_event_owner" -> EventUpdateOwner(ls, es, op.eventId, op.owner)
      [] op.op = "delete_event" -> EventDelete(ls, es, op.eventId)
      [] op.op = "create_lane" ->
            LaneCreate(ls, es, op.id, [weddingId |-> weddingId, name |-> op.name])
      [] op.op = "update_lane" -> LaneUpdate(ls, es, op.laneId, op.name)
      [] op.op = "delete_lane" -> EventDeleteMany(ls, es, op.laneId)

(***************************************************************************)
(* Patch ops offered to the service                                        *)
(***************************************************************************)
CreateEventOps(Pairs) ==
    {[op |-> "create_event", id |-> id, laneId |-> l, title |-> "t1",
      startUtc |-> p[1], endUtc |-> p[2], locked |-> FALSE] :
        id \in EventIds, l \in LaneIds, p \in Pairs}
UpdateEventTimeOps(Pairs) ==
    {[op |-> "update_event_time", eventId |-> id, startUtc |-> p[1], endUtc |-> p[2]] :
        id \in EventIds, p \in Pairs}
UpdateEventLaneOps ==
    {[op |-> "update_event_lane", eventId |-> id, laneId |-> l] : id \in EventIds, l \in LaneIds}
UpdateEventTitleOps ==
    {[op |-> "update_event_title", eventId |-> id, title |-> "t2"] : id \in EventIds}
UpdateEventOwnerOps ==
    {[op |-> "update_event_owner", eventId |-> id, owner |-> "o2"] : id \in EventIds}
DeleteEventOps == {[op |-> "delete_event", eventId |-> id] : id \in EventIds}
CreateLaneOps == {[op |-> "create_lane", id |-> l, name |-> "n1"] : l \in LaneIds}
UpdateLaneOps == {[op |-> "update_lane", laneId |-> l, name |-> "n2"] : l \in LaneIds}
DeleteLaneOps == {[op |-> "delete_lane", laneId |-> l] : l \in LaneIds}

\* every variant of the PatchOp union, time-bearing ones over the given pairs
PatchOps(Pairs) ==
    CreateEventOps(Pairs) \cup UpdateEventTimeOps(Pairs) \cup UpdateEventLaneOps
    \cup UpdateEventTitleOps \cup UpdateEventOwnerOps \cup DeleteEventOps
    \cup CreateLaneOps \cup UpdateLaneOps \cup DeleteLaneOps

\* one well-formed interval inside the window
BasicPairs == {<<WS + SampleStep, WE>>}
\* requested intervals around both window edges, aligned and not
TimeInstants ==
    {WS - SecondsPerMinute, WS + SampleStep, WS + SecondsPerMinute - SampleStep,
     WE - SampleStep, WE + SecondsPerMinute}
TimePairs == TimeInstants \X TimeInstants
TimeOps == CreateEventOps(TimePairs) \cup UpdateEventTimeOps(TimePairs) \cup DeleteEventOps

\* the ops two concurrent editors send about one event and its lane
RaceOps ==
    {o \in PatchOps(BasicPairs) :
        /\ o.op \in {"create_event", "update_event_title", "delete_event",
                     "create_lane", "delete_lane"}
        /\ o.op \in {"create_event", "create_lane"} => o.id \in {"e1", "l1"}
        /\ o.op \in {"update_event_title", "delete_event"} => o.eventId = "e1"
        /\ o.op \in {"create_event", "delete_lane"} => o.laneId = "l1"}

\* a create_event whose payload carries locked = true
LockedCreateOps ==
    {[op |-> "create_event", id |-> "e1", laneId |-> "l1", title |-> "t1",
      startUtc |-> p[1], endUtc |-> p[2], locked |-> TRUE] : p \in BasicPairs}

\* every variant of the PatchOp union over both events and both lanes
AllOps == PatchOps(BasicPairs) \cup LockedCreateOps

NoOp == [op |-> "none"]

VARIABLES
    timelineVersion, \* Wedding.timelineVersion, per wedding
    lanes,           \* TimelineLane rows by id
    events,          \* TimelineEvent rows by id
    put,             \* the PUT request of each client: position and locals
    engineIn,   \* arguments of the running processEventTimes call
    engine,     \* its position and its locals snappedStart / snappedEnd
    session,    \* one mounted TimelineView: useTimeline state and its calls in flight
    hist,       \* a HistoryState driven through record / undo / redo, with the last call
    preview,    \* a run of applyDraftToEvents and applyDraftToLanes over one op list
    win,        \* a GET that calls getTimelineWindow: position and locals
    canvas,     \* one mounted TimelineCanvas: refs, effect runs and the widget
    hook        \* useTimeline's draft and history with the history its callbacks captured

vars == <<timelineVersion, lanes, events, put, engineIn, engine, session, hist, preview,
          win, canvas, hook>>
dbVars == <<timelineVersion, lanes, events>>
serverVars == <<timelineVersion, lanes, events, put>>
engineVars == <<engineIn, engine>>
sessionVars == <<session>>
libVars == <<hist, preview, win, canvas, hook>>


(***************************************************************************)
(* processEventTimes, statement by statement                               *)
(***************************************************************************)
\* windows as getTimelineWindow yields them: minute-aligned, start < end
EngineWindows ==
    {w \in MinuteInstants \X MinuteInstants : w[1] < w[2]}
    \cup {<<ExampleWindowStart, ExampleWindowEnd>>}

\* candidate instants handed to the engine
EngineInstants == Instants \cup {ExampleStart, ExampleEnd}

EngineIdle == [pc |-> "idle", start |-> 0, end |-> 0, valid |-> FALSE, error |-> NoError]

EngineNoArgs == [start |-> 0, end |-> 0, windowStart |-> 0, windowEnd |-> SecondsPerMinute]

EngineInit ==
    /\ engineIn = EngineNoArgs
    /\ engine = EngineIdle

\* a caller invokes processEventTimes(start, end, windowStart, windowEnd)
PetCall ==
    /\ engine.pc = "idle"
    /\ \E s \in EngineInstants, e \in EngineInstants, w \in EngineWindows :
          engineIn' = [start |-> s, end |-> e, windowStart |-> w[1], windowEnd |-> w[2]]
    /\ engine' = [EngineIdle EXCEPT !.pc = "called"]
    /\ UNCHANGED <<serverVars, sessionVars, libVars>>

\* snapping.ts 69-70
PetSnap ==
    /\ engine.pc = "called"
    /\ engine' = [engine EXCEPT !.pc = "snapped",
                                !.start = snapToMinute(engineIn.start),
                                !.end = snapToMinute(engineIn.end)]
    /\ UNCHANGED <<engineIn, serverVars, sessionVars, libVars>>

\* snapping.ts 73-75
PetMinDuration ==
    /\ engine.pc = "snapped"
    /\ LET min == ensureMinDuration(engine.start, engine.end)
       IN  engine' = [engine EXCEPT !.pc = "min", !.start = min.start, !.end = min.end]
    /\ UNCHANGED <<engineIn, serverVars, sessionVars, libVars>>

\* snapping.ts 78-79
PetClamp ==
    /\ engine.pc = "min"
    /\ engine' = [engine EXCEPT
          !.pc = "clamped",
          !.start = clampToWindow(engine.start, engineIn.windowStart, engineIn.windowEnd),
          !.end = clampToWindow(engine.end, engineIn.windowStart, engineIn.windowEnd)]
    /\ UNCHANGED <<engineIn, serverVars, sessionVars, libVars>>

\* snapping.ts 82-95
PetValidate ==
    /\ engine.pc = "clamped"
    /\ engine' = IF engine.end <= engine.start
                 THEN [engine EXCEPT !.pc = "done", !.valid = FALSE,
                                     !.error = EndAfterStartError]
                 ELSE [engine EXCEPT !.pc = "done", !.valid = TRUE]
    /\ UNCHANGED <<engineIn, serverVars, sessionVars, libVars>>

\* the caller takes the returned {start, end, valid, error}
PetReturn ==
    /\ engine.pc = "done"
    /\ engine' = EngineIdle
    /\ engineIn' = EngineNoArgs
    /\ UNCHANGED <<serverVars, sessionVars, libVars>>

EngineNext ==
    PetCall \/ PetSnap \/ PetMinDuration \/ PetClamp \/ PetValidate \/ PetReturn

(***************************************************************************)
(* PUT /api/weddings/[weddingId]/timeline, one action per awaited call     *)
(***************************************************************************)
EmptyRows == [id \in {} |-> NoOp]
NoResponse == [version |-> 0, currentVersion |-> 0, lanes |-> EmptyRows, events |-> EmptyRows]
PutIdle ==
    [pc |-> "idle", weddingId |-> "w1", baseVersion |-> 0, nOps |-> 0, i |-> 0,
     op |-> NoOp, wedding |-> 0, mutated |-> FALSE, status |-> 0, response |-> NoResponse]

\* weddings that publishes are addressed to
PutWeddings == {"w1"}

\* requests that may still increment the version
Pending == {c \in Clients : put[c].pc \in {"find", "apply", "deleteLane"}}

\* getFullTimeline(weddingId, wedding): lanes and events of the wedding
getFullTimeline(weddingId, version) ==
    [version |-> version, currentVersion |-> version,
     lanes |-> RowsOf(lanes, weddingId), events |-> RowsOf(events, weddingId)]

ServerInit ==
    /\ timelineVersion = [w \in Weddings |-> DefaultTimelineVersion]
    /\ lanes = [l \in LaneIds |->
                  [weddingId |-> IF l = "l1" THEN "w1" ELSE "w2", name |-> "n1"]]
    /\ events = [e \in EventIds |->
                  [weddingId |-> IF e = "e1" THEN "w1" ELSE "w2",
                   laneId |-> IF e = "e1" THEN "l1" ELSE "l2",
                   title |-> "t1", startUtc |-> WS, endUtc |-> WS + SecondsPerMinute,
                   assignedOwnerName |-> "Couple", locked |-> (e = "e2")]]
    /\ put = [c \in Clients |-> PutIdle]

\* a request {baseVersion, patchOps} arrives (route.ts 104-112)
PutStart(c) ==
    /\ put[c].pc = "idle"
    /\ \E w \in PutWeddings, b \in 0..MaxVersion, n \in 0..MaxOps :
          /\ timelineVersion[w] + Cardinality(Pending) < MaxVersion
          /\ put' = [put EXCEPT ![c] = [PutIdle EXCEPT !.pc = "find", !.weddingId = w,
                                                       !.baseVersion = b, !.nOps = n]]
    /\ UNCHANGED <<dbVars, engineVars, libVars, sessionVars>>

\* a check that only recognises a base older than the row
VersionConflictStaleOnly(readVersion, baseVersion) == readVersion > baseVersion

\* the version check the handler makes on the row it read (route.ts 124)
VersionConflict(readVersion, baseVersion) == readVersion # baseVersion

\* prisma.wedding.findUnique and the version check (route.ts 115-124)
PutFindWedding(c) ==
    /\ put[c].pc = "find"
    /\ LET v == timelineVersion[put[c].weddingId]
       IN  put' = [put EXCEPT ![c].wedding = v,
                              ![c].pc = IF VersionConflict(v, put[c].baseVersion)
                                        THEN "conflict" ELSE "apply"]
    /\ UNCHANGED <<dbVars, engineVars, libVars, sessionVars>>

\* the 409 answer with the current timeline (route.ts 126-134)
PutConflict(c) ==
    /\ put[c].pc = "conflict"
    /\ put' = [put EXCEPT ![c].pc = "done", ![c].status = 409,
                          ![c].response = getFullTimeline(put[c].weddingId, put[c].wedding)]
    /\ UNCHANGED <<dbVars, engineVars, libVars, sessionVars>>

\* one iteration of the op loop (route.ts 144-146); a throw is caught at 162-167
PutApplyPatchOp(c, Ops) ==
    /\ put[c].pc = "apply"
    /\ put[c].i < put[c].nOps
    /\ \E op \in Ops :
         LET bounds == WeddingWindow(put[c].weddingId)
             r == applyPatchOp(lanes, events, put[c].weddingId, op,
                               bounds.windowStartUtc, bounds.windowEndUtc)
             changed == r.lanes # lanes \/ r.events # events
         IN  /\ lanes' = r.lanes
             /\ events' = r.events
             /\ put' = [put EXCEPT
                   ![c].op = op,
                   ![c].mutated = put[c].mutated \/ changed,
                   ![c].i = IF r.ok /\ op.op # "delete_lane" THEN put[c].i + 1 ELSE put[c].i,
                   ![c].pc = IF ~r.ok THEN "done"
                             ELSE IF op.op = "delete_lane" THEN "deleteLane" ELSE "apply",
                   ![c].status = IF r.ok THEN 0 ELSE 500]
    /\ UNCHANGED <<timelineVersion, engineVars, libVars, sessionVars>>

\* the second call of delete_lane: prisma.timelineLane.delete (route.ts 377-379)
PutDeleteLane(c) ==
    /\ put[c].pc = "deleteLane"
    /\ LET r == LaneDelete(lanes, events, put[c].op.laneId)
           changed == r.lanes # lanes \/ r.events # events
       IN  /\ lanes' = r.lanes
           /\ events' = r.events
           /\ put' = [put EXCEPT
                 ![c].mutated = put[c].mutated \/ changed,
                 ![c].i = IF r.ok THEN put[c].i + 1 ELSE put[c].i,
                 ![c].pc = IF r.ok THEN "apply" ELSE "done",
                 ![c].status = IF r.ok THEN 0 ELSE 500]
    /\ UNCHANGED <<timelineVersion, engineVars, libVars, sessionVars>>

\* prisma.wedding.update({timelineVersion: {increment: 1}}) (route.ts 149-152)
PutIncrement(c) ==
    /\ put[c].pc = "apply"
    /\ put[c].i = put[c].nOps
    /\ timelineVersion' = [timelineVersion EXCEPT ![put[c].weddingId] = @ + 1]
    /\ put' = [put EXCEPT ![c].pc = "reread"]
    /\ UNCHANGED <<lanes, events, engineVars, libVars, sessionVars>>

\* the wedding row is read again (route.ts 155-157)
PutReread(c) ==
    /\ put[c].pc = "reread"
    /\ put' = [put EXCEPT ![c].pc = "return",
                          ![c].wedding = timelineVersion[put[c].weddingId]]
    /\ UNCHANGED <<dbVars, engineVars, libVars, sessionVars>>

\* the updated timeline is returned (route.ts 159-161)
PutReturn(c) ==
    /\ put[c].pc = "return"
    /\ put' = [put EXCEPT ![c].pc = "done", ![c].status = 200,
                          ![c].response = getFullTimeline(put[c].weddingId, put[c].wedding)]
    /\ UNCHANGED <<dbVars, engineVars, libVars, sessionVars>>

\* the response has left the handler; the client may send another request
PutFinish(c) ==
    /\ put[c].pc = "done"
    /\ put' = [put EXCEPT ![c] = PutIdle]
    /\ UNCHANGED <<dbVars, engineVars, libVars, sessionVars>>

(***************************************************************************)
(* Draft and history reducers (lib/time.ts 169-213, lib/timeline/          *)
(* snapping.ts 100-210)                                                    *)
(***************************************************************************)
\* useTimeline.ts 83: useState(createHistory(50))
HistoryMaxSize == 50
\* longest op list a session drafts
MaxDraft == 2

\* an initial draft that is flagged dirty
createDraftStateDirty(baseVersion) ==
    [baseVersion |-> baseVersion, patchOps |-> <<>>, isDirty |-> TRUE]

createDraftState(baseVersion) ==
    [baseVersion |-> baseVersion, patchOps |-> <<>>, isDirty |-> FALSE]

addPatchOp(draft, op) ==
    [draft EXCEPT !.patchOps = Append(draft.patchOps, op), !.isDirty = TRUE]

\* a reset that falls back to the base version of a fresh session
resetDraftAtZero(newBaseVersion) == createDraftState(0)

resetDraft(newBaseVersion) == createDraftState(newBaseVersion)

createHistory(maxSize) == [past |-> <<>>, future |-> <<>>, maxSize |-> maxSize]

\* a record that makes room by dropping the newest batches
recordActionDropsNewest(history, patchOps) ==
    LET newPast == Append(history.past, patchOps)
    IN  [history EXCEPT
            !.past = IF Len(newPast) > history.maxSize
                     THEN SubSeq(newPast, 1, history.maxSize)
                     ELSE newPast,
            !.future = <<>>]

\* a record that leaves the redo stack in place
recordActionKeepsFuture(history, patchOps) ==
    LET newPast == Append(history.past, patchOps)
        n == Len(newPast)
    IN  [history EXCEPT
            !.past = IF n > history.maxSize
                     THEN SubSeq(newPast, n - history.maxSize + 1, n)
                     ELSE newPast]

\* the while loop shifts the oldest batches out until the stack fits
recordAction(history, patchOps) ==
    LET newPast == Append(history.past, patchOps)
        n == Len(newPast)
    IN  [history EXCEPT
            !.past = IF n > history.maxSize
                     THEN SubSeq(newPast, n - history.maxSize + 1, n)
                     ELSE newPast,
            !.future = <<>>]

NoBatch == <<>>

\* undo of history.ts; patchOps = NoBatch stands for the null result
historyUndo(history) ==
    IF Len(history.past) = 0
    THEN [newHistory |-> history, patchOps |-> NoBatch]
    ELSE LET lastAction == history.past[Len(history.past)]
         IN  [newHistory |->
                 [history EXCEPT
                    !.past = SubSeq(history.past, 1, Len(history.past) - 1),
                    !.future = <<lastAction>> \o history.future],
              patchOps |-> lastAction]

\* a redo that takes the batch undone first
historyRedoOldest(history) ==
    IF Len(history.future) = 0
    THEN [newHistory |-> history, patchOps |-> NoBatch]
    ELSE LET nextAction == history.future[Len(history.future)]
         IN  [newHistory |->
                 [history EXCEPT
                    !.past = Append(history.past, nextAction),
                    !.future = SubSeq(history.future, 1, Len(history.future) - 1)],
              patchOps |-> nextAction]

historyRedo(history) ==
    IF Len(history.future) = 0
    THEN [newHistory |-> history, patchOps |-> NoBatch]
    ELSE LET nextAction == history.future[1]
         IN  [newHistory |->
                 [history EXCEPT
                    !.past = Append(history.past, nextAction),
                    !.future = Tail(history.future)],
              patchOps |-> nextAction]

canUndo(history) == Len(history.past) > 0
canRedo(history) == Len(history.future) > 0

\* a clear that leaves the redo stack in place
clearHistoryPastOnly(history) == [history EXCEPT !.past = <<>>]

clearHistory(history) == [history EXCEPT !.past = <<>>, !.future = <<>>]

\* a slice that keeps the trailing elements instead of the leading ones
SliceTrailing(s, end) ==
    LET e == IF end < 0 THEN (IF Len(s) + end < 0 THEN 0 ELSE Len(s) + end)
             ELSE IF end > Len(s) THEN Len(s) ELSE end
    IN  SubSeq(s, Len(s) - e + 1, Len(s))

\* Array.prototype.slice(0, end): a negative end counts from the end
SliceTo(s, end) ==
    LET e == IF end < 0 THEN (IF Len(s) + end < 0 THEN 0 ELSE Len(s) + end)
             ELSE IF end > Len(s) THEN Len(s) ELSE end
    IN  SubSeq(s, 1, e)

(***************************************************************************)
(* getTimelineWindow (lib/time.ts 12-33) inside GET, statement by           *)
(* statement. Instants and local wall-clock times are counted in hours;    *)
(* day d starts at hour d * HoursPerDay.                                   *)
(***************************************************************************)
TIMELINE_WINDOW_START_HOUR == 3
HoursPerDay == 24
\* last calendar day a wedding is dated, and the days on which the zones
\* that observe daylight saving time move their clocks
MaxDay == 6
SpringDay == 1
FallDay == 4
\* a day in summer time, as 2026-10-17 is in America/New_York
ExampleDay == SpringDay + 1

\* IANA zones: the offset from UTC outside summer time, and the UTC hour of
\* the day at which the clocks move (America/New_York moves at 02:00 local,
\* the zones of the European Union at 01:00 UTC); a zone that never moves
\* has none
NoTransition == 0 - 1
Zones ==
    {[name |-> "UTC", valid |-> TRUE, std |-> 0, dst |-> FALSE,
      springUtcHour |-> NoTransition, fallUtcHour |-> NoTransition],
     [name |-> "America/New_York", valid |-> TRUE, std |-> 0 - 5, dst |-> TRUE,
      springUtcHour |-> 7, fallUtcHour |-> 6],
     [name |-> "Europe/Helsinki", valid |-> TRUE, std |-> 2, dst |-> TRUE,
      springUtcHour |-> 1, fallUtcHour |-> 1],
     [name |-> "Mars/Phobos", valid |-> FALSE, std |-> 0, dst |-> FALSE,
      springUtcHour |-> NoTransition, fallUtcHour |-> NoTransition]}
\* wedding dates: a calendar day, or a string that is no date
WeddingDates ==
    {[valid |-> TRUE, day |-> d] : d \in 0..MaxDay} \cup {[valid |-> FALSE, day |-> 0]}

\* zone.offset(ts): the zone's offset from UTC at an instant
SpringInstant(zone) == SpringDay * HoursPerDay + zone.springUtcHour
FallInstant(zone) == FallDay * HoursPerDay + zone.fallUtcHour
ZoneOffset(zone, ts) ==
    IF zone.dst /\ SpringInstant(zone) <= ts /\ ts < FallInstant(zone)
    THEN zone.std + 1 ELSE zone.std
\* the offsets the zone has over the year
ZoneOffsets(zone) == IF zone.dst THEN {zone.std, zone.std + 1} ELSE {zone.std}

\* luxon's conversion of local fields to an instant, from a guessed offset:
\* a local time the clocks skip is moved forward by the gap
fixOffset(localTS, o, zone) ==
    LET utcGuess == localTS - o
        o2 == ZoneOffset(zone, utcGuess)
        utcGuess2 == utcGuess - (o2 - o)
        o3 == ZoneOffset(zone, utcGuess2)
        lo == IF o2 < o3 THEN o2 ELSE o3
        hi == IF o2 < o3 THEN o3 ELSE o2
    IN  IF o = o2 THEN [ts |-> utcGuess, o |-> o]
        ELSE IF o2 = o3 THEN [ts |-> utcGuess2, o |-> o2]
        ELSE [ts |-> localTS - lo, o |-> hi]

\* a luxon DateTime: instant, offset and validity; its local fields are ts + o
InvalidDateTime == [isValid |-> FALSE, ts |-> 0, o |-> 0]
DateTimeOf(r) == [isValid |-> TRUE, ts |-> r.ts, o |-> r.o]
LocalFields(dt) == dt.ts + dt.o
\* toUTC().toISO(): the instant, or null for an invalid DateTime
NullIso == [isNull |-> TRUE, ts |-> 0]
toISO(dt) == IF dt.isValid THEN [isNull |-> FALSE, ts |-> dt.ts] ELSE NullIso

\* DateTime.fromISO(weddingDate, {zone}) (time.ts 14): midnight of the date
\* in the zone, found from the zone's offset at the time of the call
fromISO(weddingDate, zone, offsetNow) ==
    IF ~weddingDate.valid \/ ~zone.valid THEN InvalidDateTime
    ELSE DateTimeOf(fixOffset(weddingDate.day * HoursPerDay, offsetNow, zone))

\* weddingDt.set({hour: 3, minute: 0, second: 0, millisecond: 0}) (time.ts 17-22)
setHour(dt, zone) ==
    IF ~dt.isValid THEN dt
    ELSE DateTimeOf(fixOffset(
            (LocalFields(dt) \div HoursPerDay) * HoursPerDay + TIMELINE_WINDOW_START_HOUR,
            dt.o, zone))

\* windowStartLocal.plus({days: 1}) (time.ts 25): the next calendar day at
\* the local fields the DateTime has
plusOneDay(dt, zone) ==
    IF ~dt.isValid THEN dt
    ELSE DateTimeOf(fixOffset(LocalFields(dt) + HoursPerDay, dt.o, zone))

WinIdle ==
    [pc |-> "idle", weddingDate |-> [valid |-> FALSE, day |-> 0], zone |-> "UTC",
     offsetNow |-> 0, weddingDt |-> InvalidDateTime, windowStartLocal |-> InvalidDateTime,
     windowEndLocal |-> InvalidDateTime, windowStartUtc |-> NullIso,
     windowEndUtc |-> NullIso, status |-> 0]
WinIdleInit == win = WinIdle
ZoneNamed(name) == CHOOSE z \in Zones : z.name = name

\* GET has read the wedding row and calls getTimelineWindow (route.ts 34-37)
WinInit ==
    \E d \in WeddingDates, z \in Zones : \E o \in ZoneOffsets(z) :
        win = [WinIdle EXCEPT !.pc = "parse", !.weddingDate = d, !.zone = z.name,
                              !.offsetNow = o]

WinParse ==
    /\ win.pc = "parse"
    /\ win' = [win EXCEPT
            !.pc = "set",
            !.weddingDt = fromISO(win.weddingDate, ZoneNamed(win.zone), win.offsetNow)]
    /\ UNCHANGED <<serverVars, engineVars, sessionVars, hist, preview, canvas, hook>>

WinSet ==
    /\ win.pc = "set"
    /\ win' = [win EXCEPT
            !.pc = "plus",
            !.windowStartLocal = setHour(win.weddingDt, ZoneNamed(win.zone))]
    /\ UNCHANGED <<serverVars, engineVars, sessionVars, hist, preview, canvas, hook>>

WinPlus ==
    /\ win.pc = "plus"
    /\ win' = [win EXCEPT
            !.pc = "return",
            !.windowEndLocal = plusOneDay(win.windowStartLocal, ZoneNamed(win.zone))]
    /\ UNCHANGED <<serverVars, engineVars, sessionVars, hist, preview, canvas, hook>>

\* the object getTimelineWindow returns (time.ts 27-32)
WinReturn ==
    /\ win.pc = "return"
    /\ win' = [win EXCEPT
            !.pc = "respond",
            !.windowStartUtc = toISO(win.windowStartLocal),
            !.windowEndUtc = toISO(win.windowEndLocal)]
    /\ UNCHANGED <<serverVars, engineVars, sessionVars, hist, preview, canvas, hook>>

\* GET answers with the window among the fields of the timeline
\* (route.ts 83-92)
WinRespond ==
    /\ win.pc = "respond"
    /\ win' = [win EXCEPT !.pc = "done", !.status = 200]
    /\ UNCHANGED <<serverVars, engineVars, sessionVars, hist, preview, canvas, hook>>

NextWindow == WinParse \/ WinSet \/ WinPlus \/ WinReturn \/ WinRespond

(***************************************************************************)
(* TimelineCanvas (components/timeline/TimelineCanvas.tsx): the refs of    *)
(* one component instance, the runs of its init effect and the widgets     *)
(* they created. A widget is named by the number of the run that made it.  *)
(***************************************************************************)
\* init-effect runs that start an initialization, and versions of the data props
MaxRuns == 3
MaxData == 2
RunIds == 1..MaxRuns
NullRef == 0

NoRun == [init |-> "none", mounted |-> FALSE, readOnly |-> FALSE]
CanvasIdle ==
    [phase |-> "created", lifecycleRef |-> "idle", timelineRef |-> NullRef,
     readOnly |-> FALSE, nRuns |-> 0, current |-> NullRef,
     runs |-> [k \in RunIds |-> NoRun],
     widgets |-> [k \in RunIds |-> "none"],
     raf |-> {}, dataVersion |-> 1, shown |-> [k \in RunIds |-> 0],
     delivered |-> <<>>, moveCallback |-> "none"]
CanvasIdleInit == canvas = CanvasIdle

\* the component has rendered once, before its effects ran
CanvasInit == \E ro \in BOOLEAN : canvas = [CanvasIdle EXCEPT !.readOnly = ro]

\* the cleanup function the current run returned (TimelineCanvas.tsx
\* 272-331); a run that returned early left none
Effect1Cleanup(cv) ==
    IF cv.current = NullRef THEN cv
    ELSE
      LET c1 == [cv EXCEPT !.runs[cv.current].mounted = FALSE, !.current = NullRef]
          timeline == cv.timelineRef
      IN  IF cv.lifecycleRef \in {"destroying", "idle"} THEN c1
          ELSE IF timeline # NullRef
          THEN [c1 EXCEPT !.lifecycleRef = "destroying", !.timelineRef = NullRef,
                          !.widgets[timeline] = "cleared", !.shown[timeline] = 0,
                          !.raf = cv.raf \cup {timeline}]
          ELSE [c1 EXCEPT !.lifecycleRef = "idle", !.timelineRef = NullRef]

\* the body of the init effect up to the call of initTimeline
\* (TimelineCanvas.tsx 134-144, 270)
Effect1Body(cv) ==
    IF cv.lifecycleRef # "idle" THEN cv
    ELSE LET k == cv.nRuns + 1
         IN  [cv EXCEPT !.lifecycleRef = "initializing", !.nRuns = k, !.current = k,
                        !.runs[k] = [init |-> "pending", mounted |-> TRUE,
                                     readOnly |-> cv.readOnly]]

\* the sync effect (TimelineCanvas.tsx 335-360)
Effect2(cv) ==
    IF cv.lifecycleRef # "ready" THEN cv
    ELSE IF cv.timelineRef = NullRef THEN cv
    ELSE [cv EXCEPT !.shown[cv.timelineRef] = cv.dataVersion]

\* the first commit: both effects run, the init effect first
CanvasMount ==
    /\ canvas.phase = "created"
    /\ canvas' = Effect2(Effect1Body([canvas EXCEPT !.phase = "mounted"]))
    /\ UNCHANGED <<serverVars, engineVars, sessionVars, hist, preview, win, hook>>

\* a later commit: the cleanup and the body of the init effect when one of
\* its dependencies changed, then the sync effect when the items, groups,
\* bands or selection changed (the items change with readOnly)
CanvasRender(depsChanged, dataChanged, readOnly) ==
    /\ canvas.phase = "mounted"
    /\ depsChanged \/ dataChanged
    /\ readOnly # canvas.readOnly => depsChanged
    /\ dataChanged => canvas.dataVersion < MaxData
    /\ LET c0 == [canvas EXCEPT
                    !.readOnly = readOnly,
                    !.dataVersion = IF dataChanged THEN @ + 1 ELSE @,
                    !.delivered = <<>>, !.moveCallback = "none"]
           c1 == IF depsChanged THEN Effect1Cleanup(c0) ELSE c0
           c2 == IF depsChanged THEN Effect1Body(c1) ELSE c1
           c3 == IF dataChanged \/ readOnly # canvas.readOnly THEN Effect2(c2) ELSE c2
       IN  /\ c2.nRuns <= MaxRuns
           /\ canvas' = c3
    /\ UNCHANGED <<serverVars, engineVars, sessionVars, hist, preview, win, hook>>

\* the component is removed: the cleanup runs and no effect follows
CanvasUnmount ==
    /\ canvas.phase = "mounted"
    /\ canvas' = [Effect1Cleanup(canvas) EXCEPT
            !.phase = "removed", !.delivered = <<>>, !.moveCallback = "none"]
    /\ UNCHANGED <<serverVars, engineVars, sessionVars, hist, preview, win, hook>>

\* the imports of run k resolve and initTimeline runs to its end
\* (TimelineCanvas.tsx 155-263)
InitResolve(k) ==
    /\ canvas.runs[k].init = "pending"
    /\ canvas' =
         IF \/ ~canvas.runs[k].mounted
            \/ canvas.phase = "removed"
            \/ canvas.lifecycleRef = "destroying"
         THEN [canvas EXCEPT !.runs[k].init = "returned",
                             !.delivered = <<>>, !.moveCallback = "none"]
         ELSE [canvas EXCEPT !.runs[k].init = "done", !.widgets[k] = "live",
                             !.timelineRef = k, !.lifecycleRef = "ready",
                             !.delivered = <<>>, !.moveCallback = "none"]
    /\ UNCHANGED <<serverVars, engineVars, sessionVars, hist, preview, win, hook>>

\* an import of run k rejects: the catch block (TimelineCanvas.tsx 264-267)
InitFail(k) ==
    /\ canvas.runs[k].init = "pending"
    /\ canvas' = [canvas EXCEPT !.runs[k].init = "failed", !.lifecycleRef = "idle",
                                !.delivered = <<>>, !.moveCallback = "none"]
    /\ UNCHANGED <<serverVars, engineVars, sessionVars, hist, preview, win, hook>>

\* the animation frame requested by a cleanup (TimelineCanvas.tsx 318-327)
RafFire(w) ==
    /\ w \in canvas.raf
    /\ canvas' = [canvas EXCEPT !.raf = @ \ {w}, !.widgets[w] = "destroyed",
                                !.lifecycleRef = "idle",
                                !.delivered = <<>>, !.moveCallback = "none"]
    /\ UNCHANGED <<serverVars, engineVars, sessionVars, hist, preview, win, hook>>

\* where the user drops an item of event e1, stored in lane l1
DragInstants == {WS - SecondsPerMinute, WS, WS + SampleStep, WS + SecondsPerMinute, WE,
                 WE + SecondsPerMinute}
\* a guard that lets every move through
MoveBlockedNever(lifecycle) == FALSE
\* the guard at the head of onMove (TimelineCanvas.tsx 197-201)
MoveBlocked(lifecycle) == lifecycle # "ready"
\* onMove of a widget (TimelineCanvas.tsx 195-233): the callbacks it calls,
\* in order, and what it passes to the widget's callback
onMove(lifecycle, start, end, group) ==
    LET snappedStart == SetSecondsZero(start)
        snappedEnd == SetSecondsZero(end)
    IN  IF MoveBlocked(lifecycle) THEN [calls |-> <<>>, callback |-> "null"]
        ELSE IF snappedStart < WS \/ snappedEnd > WE THEN [calls |-> <<>>, callback |-> "null"]
        ELSE IF snappedEnd - snappedStart < SecondsPerMinute
        THEN [calls |-> <<>>, callback |-> "null"]
        ELSE [calls |-> (IF group # "l1" THEN <<"onUpdateEventLane">> ELSE <<>>)
                        \o <<"onUpdateEventTime">>,
              callback |-> "item"]

\* the user drops an item in widget w, which was created editable and is
\* not destroyed
WidgetMove(w) ==
    /\ canvas.widgets[w] \in {"live", "cleared"}
    /\ ~canvas.runs[w].readOnly
    /\ \E start \in DragInstants, end \in DragInstants, group \in LaneIds :
          LET r == onMove(canvas.lifecycleRef, start, end, group)
          IN  canvas' = [canvas EXCEPT !.delivered = r.calls, !.moveCallback = r.callback]
    /\ UNCHANGED <<serverVars, engineVars, sessionVars, hist, preview, win, hook>>

\* the "select" handler (TimelineCanvas.tsx 245-255); the cleanup takes it
\* off
WidgetSelect(w) ==
    /\ canvas.widgets[w] = "live"
    /\ canvas' = [canvas EXCEPT
            !.delivered = IF canvas.lifecycleRef # "ready" THEN <<>>
                          ELSE <<"onSelectEvent">>,
            !.moveCallback = "none"]
    /\ UNCHANGED <<serverVars, engineVars, sessionVars, hist, preview, win, hook>>

NextCanvas ==
    \/ CanvasMount
    \/ \E d \in BOOLEAN, c \in BOOLEAN, ro \in BOOLEAN : CanvasRender(d, c, ro)
    \/ CanvasUnmount
    \/ \E k \in RunIds : InitResolve(k)
    \/ \E k \in RunIds : InitFail(k)
    \/ \E w \in RunIds : RafFire(w)
    \/ \E w \in RunIds : WidgetMove(w)
    \/ \E w \in RunIds : WidgetSelect(w)

(***************************************************************************)
(* The history stack driven call by call (lib/timeline/snapping.ts         *)
(* 109-185)                                                                *)
(***************************************************************************)
\* largest maxSize a driven history is created with
HistoryCap == 2
\* longest batch recorded
MaxBatch == 2

\* non-empty op lists of at most n ops
RECURSIVE BatchesUpTo(_)
BatchesUpTo(n) ==
    IF n = 0 THEN {}
    ELSE BatchesUpTo(n - 1) \cup
         {b \in [1..n -> {[op |-> "update_event_title", eventId |-> "e1", title |-> "t2"],
                          [op |-> "delete_event", eventId |-> "e1"]}] : TRUE}
HistoryBatches == BatchesUpTo(MaxBatch)

\* no call made yet on the history
HistFresh(history) ==
    [history |-> history, call |-> "none", input |-> history,
     arg |-> NoBatch, patchOps |-> NoBatch]

HistIdleInit == hist = HistFresh(createHistory(HistoryMaxSize))

\* createHistory(maxSize) for each capacity up to the cap
HistInit == \E m \in 1..HistoryCap : hist = HistFresh(createHistory(m))

\* recordAction(history, patchOps)
HistRecord(patchOps) ==
    /\ hist' = [history |-> recordAction(hist.history, patchOps), call |-> "record",
                input |-> hist.history, arg |-> patchOps, patchOps |-> NoBatch]
    /\ UNCHANGED <<serverVars, engineVars, sessionVars, preview, win, canvas, hook>>

\* undo(history)
HistUndo ==
    /\ LET r == historyUndo(hist.history)
       IN  hist' = [history |-> r.newHistory, call |-> "undo",
                    input |-> hist.history, arg |-> NoBatch, patchOps |-> r.patchOps]
    /\ UNCHANGED <<serverVars, engineVars, sessionVars, preview, win, canvas, hook>>

\* redo(history)
HistRedo ==
    /\ LET r == historyRedo(hist.history)
       IN  hist' = [history |-> r.newHistory, call |-> "redo",
                    input |-> hist.history, arg |-> NoBatch, patchOps |-> r.patchOps]
    /\ UNCHANGED <<serverVars, engineVars, sessionVars, preview, win, canvas, hook>>

NextHistory ==
    \/ \E b \in HistoryBatches : HistRecord(b)
    \/ HistUndo
    \/ HistRedo

(***************************************************************************)
(* The draft reducer (lib/time.ts 218-299), op by op                       *)
(***************************************************************************)
\* longest op list reduced
MaxPreviewOps == 3
\* callbacks called between two renders
MaxCalls == 2

\* the TimelineEventItem a create_event op carries, with the fields the
\* reducer's cases read or write; the modelled op names no owner
EventOf(op) ==
    [id |-> op.id, laneId |-> op.laneId, title |-> op.title,
     startUtc |-> op.startUtc, endUtc |-> op.endUtc, assignedOwner |-> "none"]
\* the TimelineLane a create_lane op carries
LaneOf(op) == [id |-> op.id, name |-> op.name]

\* a switch whose delete_event case keeps the event
applyEventOpKeepsDeleted(result, op) ==
    CASE op.op = "create_event" -> Append(result, EventOf(op))
      [] op.op = "update_event_time" ->
            [k \in 1..Len(result) |->
                IF result[k].id = op.eventId
                THEN [result[k] EXCEPT !.startUtc = op.startUtc, !.endUtc = op.endUtc]
                ELSE result[k]]
      [] op.op = "update_event_lane" ->
            [k \in 1..Len(result) |->
                IF result[k].id = op.eventId
                THEN [result[k] EXCEPT !.laneId = op.laneId] ELSE result[k]]
      [] op.op = "update_event_title" ->
            [k \in 1..Len(result) |->
                IF result[k].id = op.eventId
                THEN [result[k] EXCEPT !.title = op.title] ELSE result[k]]
      [] op.op = "update_event_owner" ->
            [k \in 1..Len(result) |->
                IF result[k].id = op.eventId
                THEN [result[k] EXCEPT !.assignedOwner = op.owner] ELSE result[k]]
      [] OTHER -> result

\* the switch of applyDraftToEvents on one op (time.ts 225-259)
applyEventOp(result, op) ==
    CASE op.op = "create_event" -> Append(result, EventOf(op))
      [] op.op = "update_event_time" ->
            [k \in 1..Len(result) |->
                IF result[k].id = op.eventId
                THEN [result[k] EXCEPT !.startUtc = op.startUtc, !.endUtc = op.endUtc]
                ELSE result[k]]
      [] op.op = "update_event_lane" ->
            [k \in 1..Len(result) |->
                IF result[k].id = op.eventId
                THEN [result[k] EXCEPT !.laneId = op.laneId] ELSE result[k]]
      [] op.op = "update_event_title" ->
            [k \in 1..Len(result) |->
                IF result[k].id = op.eventId
                THEN [result[k] EXCEPT !.title = op.title] ELSE result[k]]
      [] op.op = "update_event_owner" ->
            [k \in 1..Len(result) |->
                IF result[k].id = op.eventId
                THEN [result[k] EXCEPT !.assignedOwner = op.owner] ELSE result[k]]
      [] op.op = "delete_event" ->
            SelectSeq(result, LAMBDA e : e.id # op.eventId)
      [] OTHER -> result

\* a switch whose update_lane case adds the lane when no lane has the id
applyLaneOpUpserts(result, op) ==
    CASE op.op = "create_lane" -> Append(result, LaneOf(op))
      [] op.op = "update_lane" ->
            IF \E k \in 1..Len(result) : result[k].id = op.laneId
            THEN [k \in 1..Len(result) |->
                    IF result[k].id = op.laneId
                    THEN [result[k] EXCEPT !.name = op.name] ELSE result[k]]
            ELSE Append(result, [id |-> op.laneId, name |-> op.name])
      [] op.op = "delete_lane" ->
            SelectSeq(result, LAMBDA l : l.id # op.laneId)
      [] OTHER -> result

\* the switch of applyDraftToLanes on one op (time.ts 275-294)
applyLaneOp(result, op) ==
    CASE op.op = "create_lane" -> Append(result, LaneOf(op))
      [] op.op = "update_lane" ->
            [k \in 1..Len(result) |->
                IF result[k].id = op.laneId
                THEN [result[k] EXCEPT !.name = op.name] ELSE result[k]]
      [] op.op = "delete_lane" ->
            SelectSeq(result, LAMBDA l : l.id # op.laneId)
      [] OTHER -> result

RECURSIVE applyDraftToEvents(_, _)
applyDraftToEvents(events_, patchOps) ==
    IF patchOps = <<>> THEN events_
    ELSE applyDraftToEvents(applyEventOp(events_, Head(patchOps)), Tail(patchOps))

RECURSIVE applyDraftToLanes(_, _)
applyDraftToLanes(lanes_, patchOps) ==
    IF patchOps = <<>> THEN lanes_
    ELSE applyDraftToLanes(applyLaneOp(lanes_, Head(patchOps)), Tail(patchOps))

\* snapshots the reducer starts from
PreviewEvent(id) ==
    [id |-> id, laneId |-> "l1", title |-> "t0", startUtc |-> WS,
     endUtc |-> WS + SecondsPerMinute, assignedOwner |-> "Couple"]
PreviewEventLists == {<<>>, <<PreviewEvent("e1")>>, <<PreviewEvent("e2"), PreviewEvent("e1")>>}
PreviewLaneLists == {<<>>, <<[id |-> "l1", name |-> "n1"]>>}

\* ops of a draft about event e1 and lane l1, one of each variant
PreviewPairs == {<<WS, WS + SecondsPerMinute>>, <<WS + SecondsPerMinute, WE>>}
PreviewOps ==
    {o \in PatchOps(PreviewPairs) :
        /\ o.op = "create_event" => (o.id = "e1" /\ o.laneId = "l1" /\ o.startUtc = WS)
        /\ o.op = "update_event_time" => o.startUtc = WS + SecondsPerMinute
        /\ o.op \in {"update_event_time", "update_event_lane", "update_event_title",
                    "update_event_owner", "delete_event"} => o.eventId = "e1"
        /\ o.op = "update_event_lane" => o.laneId = "l2"
        /\ o.op = "create_lane" => o.id = "l1"
        /\ o.op \in {"update_lane", "delete_lane"} => o.laneId = "l1"}

PreviewOpLists == UNION {[1..n -> PreviewOps] : n \in 0..MaxPreviewOps}

PreviewIdle ==
    [pc |-> "idle", events |-> <<>>, lanes |-> <<>>, patchOps |-> <<>>, i |-> 0,
     result |-> <<>>, laneResult |-> <<>>]
PreviewIdleInit == preview = PreviewIdle

\* a render computes displayEvents and then displayLanes (useTimeline.ts
\* 114-119); each starts from a copy of the snapshot's list
PreviewInit ==
    \E es \in PreviewEventLists, ls \in PreviewLaneLists, ops \in PreviewOpLists :
        preview = [pc |-> "events", events |-> es, lanes |-> ls, patchOps |-> ops,
                   i |-> 0, result |-> es, laneResult |-> ls]

\* one iteration of the loop of applyDraftToEvents
PreviewEventOp ==
    /\ preview.pc = "events"
    /\ preview.i < Len(preview.patchOps)
    /\ preview' = [preview EXCEPT
            !.result = applyEventOp(preview.result, preview.patchOps[preview.i + 1]),
            !.i = preview.i + 1]
    /\ UNCHANGED <<serverVars, engineVars, sessionVars, hist, win, canvas, hook>>

\* applyDraftToEvents returns; applyDraftToLanes starts
PreviewEventsReturn ==
    /\ preview.pc = "events"
    /\ preview.i = Len(preview.patchOps)
    /\ preview' = [preview EXCEPT !.pc = "lanes", !.i = 0]
    /\ UNCHANGED <<serverVars, engineVars, sessionVars, hist, win, canvas, hook>>

\* one iteration of the loop of applyDraftToLanes
PreviewLaneOp ==
    /\ preview.pc = "lanes"
    /\ preview.i < Len(preview.patchOps)
    /\ preview' = [preview EXCEPT
            !.laneResult = applyLaneOp(preview.laneResult, preview.patchOps[preview.i + 1]),
            !.i = preview.i + 1]
    /\ UNCHANGED <<serverVars, engineVars, sessionVars, hist, win, canvas, hook>>

\* applyDraftToLanes returns
PreviewLanesReturn ==
    /\ preview.pc = "lanes"
    /\ preview.i = Len(preview.patchOps)
    /\ preview' = [preview EXCEPT !.pc = "done"]
    /\ UNCHANGED <<serverVars, engineVars, sessionVars, hist, win, canvas, hook>>

NextPreview ==
    PreviewEventOp \/ PreviewEventsReturn \/ PreviewLaneOp \/ PreviewLanesReturn

(***************************************************************************)
(* Timeline Session Controller: hooks/useTimeline.ts under                 *)
(* components/timeline/TimelineView.tsx and TimelineToolbar.tsx            *)
(***************************************************************************)
\* the wedding the session edits
SessionWedding == "w1"

\* ops the user's gestures produce in this session
SessionOps ==
    {[op |-> "update_event_title", eventId |-> "e1", title |-> "t2"],
     [op |-> "delete_event", eventId |-> "e1"]}

\* ops another publisher of the same wedding sends
RivalOps == {[op |-> "delete_lane", laneId |-> "l1"]}

\* values of the error state; kind "none" stands for null
NoSessionError == [kind |-> "none", yourVersion |-> 0, currentVersion |-> 0]
ConflictError(yourVersion, currentVersion) ==
    [kind |-> "Timeline was updated by someone else",
     yourVersion |-> yourVersion, currentVersion |-> currentVersion]
PublishFailedError == [kind |-> "Failed to publish changes", yourVersion |-> 0, currentVersion |-> 0]
NetworkError == [kind |-> "Failed to fetch", yourVersion |-> 0, currentVersion |-> 0]

\* values of the timeline state; null = TRUE stands for null
NoTimeline == [null |-> TRUE, version |-> 0, lanes |-> EmptyRows, events |-> EmptyRows]
Snapshot(data) ==
    [null |-> FALSE, version |-> data.version, lanes |-> data.lanes, events |-> data.events]

NoCalls == [c \in {} |-> NoOp]
LoadIdle == [pc |-> "idle", response |-> NoResponse]

\* the state of a mounted view: useState initial values, and the refresh the
\* mount effect has started (useTimeline.ts 79-84, 109-111)
SessionInit ==
    session = [timeline |-> NoTimeline,
               isLoading |-> TRUE,
               error |-> NoSessionError,
               draft |-> createDraftState(0),
               history |-> createHistory(HistoryMaxSize),
               isPublishing |-> FALSE,
               load |-> [pc |-> "fetching", response |-> NoResponse],
               publish |-> NoCalls,
               returned |-> "none"]   \* what publish() resolved with in the last step

\* what TimelineView renders: the editor, unless loading, error or no data
EditorShown == ~session.isLoading /\ session.error = NoSessionError /\ ~session.timeline.null

\* GET handler: one findUnique with lanes and events included (route.ts 12-100)
GetTimeline ==
    /\ session.load.pc = "fetching"
    /\ session' = [session EXCEPT !.load =
            [pc |-> "responded",
             response |-> getFullTimeline(SessionWedding, timelineVersion[SessionWedding])],
            !.returned = "none"]
    /\ UNCHANGED <<serverVars, engineVars, libVars>>

\* refresh after the response (useTimeline.ts 97-100, 103-105); the callback
\* closes over the history of the first render
RefreshResolve ==
    /\ session.load.pc = "responded"
    /\ session' = [session EXCEPT
            !.timeline = Snapshot(session.load.response),
            !.draft = createDraftState(session.load.response.version),
            !.history = clearHistory(createHistory(HistoryMaxSize)),
            !.isLoading = FALSE,
            !.load = LoadIdle,
            !.returned = "none"]
    /\ UNCHANGED <<serverVars, engineVars, libVars>>

\* refresh when fetch rejects (useTimeline.ts 101-105)
RefreshFail ==
    /\ session.load.pc \in {"fetching", "responded"}
    /\ session' = [session EXCEPT
            !.error = NetworkError, !.isLoading = FALSE, !.load = LoadIdle,
            !.returned = "none"]
    /\ UNCHANGED <<serverVars, engineVars, libVars>>

\* "Try again" in the error view calls refresh (TimelineView.tsx 131-149)
RefreshClick ==
    /\ ~session.isLoading
    /\ session.error # NoSessionError
    /\ session' = [session EXCEPT
            !.isLoading = TRUE, !.error = NoSessionError,
            !.load = [pc |-> "fetching", response |-> NoResponse],
            !.returned = "none"]
    /\ UNCHANGED <<serverVars, engineVars, libVars>>

\* applyPatch([op]) from the canvas, the inspector or the add dialog
\* (useTimeline.ts 122-183)
ApplyPatch(op) ==
    /\ EditorShown
    /\ Len(session.draft.patchOps) < MaxDraft
    /\ session' = [session EXCEPT
            !.draft = addPatchOp(session.draft, op),
            !.history = recordAction(session.history, <<op>>),
            !.returned = "none"]
    /\ UNCHANGED <<serverVars, engineVars, libVars>>

\* an undo that leaves the dirty flag as it is
undoDraftStaysDirty(d, patchOps) ==
    [d EXCEPT !.patchOps = SliceTo(d.patchOps, Len(d.patchOps) - Len(patchOps))]

\* the setDraft updater of undo (useTimeline.ts 237-241)
undoDraft(d, patchOps) ==
    [d EXCEPT !.patchOps = SliceTo(d.patchOps, Len(d.patchOps) - Len(patchOps)),
              !.isDirty = Len(d.patchOps) - Len(patchOps) > 0]

\* a redo that puts the batch in front of the ops
redoDraftPrepends(d, patchOps) ==
    [d EXCEPT !.patchOps = patchOps \o d.patchOps, !.isDirty = TRUE]

\* the setDraft updater of redo (useTimeline.ts 250-254)
redoDraft(d, patchOps) ==
    [d EXCEPT !.patchOps = d.patchOps \o patchOps, !.isDirty = TRUE]

\* the undo callback made by a render that saw history (useTimeline.ts
\* 233-244): the draft updater runs on the draft as it is, the history is
\* replaced by one computed from the render's
undoOf(history, s) ==
    LET r == historyUndo(history)
    IN  IF r.patchOps = NoBatch THEN s
        ELSE [s EXCEPT !.draft = undoDraft(s.draft, r.patchOps),
                       !.history = r.newHistory]
\* the redo callback made by a render that saw history (useTimeline.ts 247-257)
redoOf(history, s) ==
    LET r == historyRedo(history)
    IN  IF r.patchOps = NoBatch THEN s
        ELSE [s EXCEPT !.draft = redoDraft(s.draft, r.patchOps),
                       !.history = r.newHistory]

\* undo of the hook on the state of the last render
undo(s) == undoOf(s.history, s)

\* redo of the hook on the state of the last render
redo(s) == redoOf(s.history, s)

(***************************************************************************)
(* useTimeline's callbacks as closures (hooks/useTimeline.ts 122-130,      *)
(* 227-257): undo, redo and discard are made anew by each render and read  *)
(* the history and baseVersion that render saw; the state updates they     *)
(* queue are applied in order before the next render.                      *)
(***************************************************************************)
\* ops the editor drafts
HookOps == SessionOps

HookIdle ==
    [pc |-> "idle", draft |-> createDraftState(0), history |-> createHistory(HistoryMaxSize),
     seen |-> [history |-> createHistory(HistoryMaxSize), baseVersion |-> 0],
     called |-> <<>>]
HookIdleInit == hook = HookIdle

\* the render after the first load: draft and history as refresh set them
HookInit ==
    \E v \in 0..MaxVersion :
        hook = [HookIdle EXCEPT !.pc = "rendered", !.draft = createDraftState(v),
                                !.seen.baseVersion = v]

\* React renders with the queued updates applied: new callbacks capture
\* the history and the baseVersion of this render
HookRender ==
    /\ hook.pc = "rendered"
    /\ hook.called # <<>>
    /\ hook' = [hook EXCEPT
            !.seen = [history |-> hook.history, baseVersion |-> hook.draft.baseVersion],
            !.called = <<>>]
    /\ UNCHANGED <<serverVars, engineVars, sessionVars, hist, preview, win, canvas>>

\* applyPatch([op]): both updates are updater functions (useTimeline.ts 122-130)
HookApplyPatch(op) ==
    /\ hook.pc = "rendered"
    /\ Len(hook.called) < MaxCalls
    /\ Len(hook.draft.patchOps) < MaxDraft
    /\ Len(hook.history.past) < MaxDraft
    /\ hook' = [hook EXCEPT
            !.draft = addPatchOp(hook.draft, op),
            !.history = recordAction(hook.history, <<op>>),
            !.called = Append(hook.called, "applyPatch")]
    /\ UNCHANGED <<serverVars, engineVars, sessionVars, hist, preview, win, canvas>>

HookUndo ==
    /\ hook.pc = "rendered"
    /\ Len(hook.called) < MaxCalls
    /\ hook' = [undoOf(hook.seen.history, hook) EXCEPT !.called = Append(hook.called, "undo")]
    /\ UNCHANGED <<serverVars, engineVars, sessionVars, hist, preview, win, canvas>>

HookRedo ==
    /\ hook.pc = "rendered"
    /\ Len(hook.called) < MaxCalls
    /\ Len(hook.draft.patchOps) < MaxDraft
    /\ hook' = [redoOf(hook.seen.history, hook) EXCEPT !.called = Append(hook.called, "redo")]
    /\ UNCHANGED <<serverVars, engineVars, sessionVars, hist, preview, win, canvas>>

\* discard (useTimeline.ts 227-230)
HookDiscard ==
    /\ hook.pc = "rendered"
    /\ Len(hook.called) < MaxCalls
    /\ hook' = [hook EXCEPT
            !.draft = createDraftState(hook.seen.baseVersion),
            !.history = clearHistory(hook.seen.history),
            !.called = Append(hook.called, "discard")]
    /\ UNCHANGED <<serverVars, engineVars, sessionVars, hist, preview, win, canvas>>

NextHook ==
    \/ HookRender
    \/ \E op \in HookOps : HookApplyPatch(op)
    \/ HookUndo
    \/ HookRedo
    \/ HookDiscard

\* undo, from the toolbar or Ctrl+Z in any view
Undo ==
    /\ canUndo(session.history)
    /\ session' = [undo(session) EXCEPT !.returned = "none"]
    /\ UNCHANGED <<serverVars, engineVars, libVars>>

\* redo, from the toolbar or Ctrl+Shift+Z in any view
Redo ==
    /\ canRedo(session.history)
    /\ session' = [redo(session) EXCEPT !.returned = "none"]
    /\ UNCHANGED <<serverVars, engineVars, libVars>>

\* a toolbar in which Publish and Discard stay enabled while publishing
ToolbarButtonDisabledNever(isPublishing) == FALSE

\* disabled={isPublishing} on Discard and Publish (TimelineToolbar.tsx 107-125)
ToolbarButtonDisabled(isPublishing) == isPublishing

\* Discard button (useTimeline.ts 227-230)
Discard ==
    /\ EditorShown
    /\ session.draft.isDirty
    /\ ~ToolbarButtonDisabled(session.isPublishing)
    /\ session' = [session EXCEPT
            !.draft = createDraftState(session.draft.baseVersion),
            !.history = clearHistory(session.history),
            !.returned = "none"]
    /\ UNCHANGED <<serverVars, engineVars, libVars>>

IdleInit ==
    HistIdleInit /\ PreviewIdleInit /\ WinIdleInit /\ CanvasIdleInit /\ HookIdleInit
Init == ServerInit /\ EngineInit /\ SessionInit /\ IdleInit

\* two clients publish concurrently
Next ==
    \E c \in Clients :
        \/ PutStart(c)
        \/ PutFindWedding(c)
        \/ PutConflict(c)
        \/ PutApplyPatchOp(c, RaceOps)
        \/ PutDeleteLane(c)
        \/ PutIncrement(c)
        \/ PutReread(c)
        \/ PutReturn(c)
        \/ PutFinish(c)

Spec == Init /\ [][Next]_vars

\* one client publishes time-bearing ops with requested times around the window
NextTimes ==
    \/ PutStart("c1")
    \/ PutFindWedding("c1")
    \/ PutConflict("c1")
    \/ PutApplyPatchOp("c1", TimeOps)
    \/ PutIncrement("c1")
    \/ PutReread("c1")
    \/ PutReturn("c1")
    \/ PutFinish("c1")

SpecTimes == Init /\ [][NextTimes]_vars

\* one client publishes every variant of patch op
NextOps ==
    \/ PutStart("c1")
    \/ PutFindWedding("c1")
    \/ PutConflict("c1")
    \/ PutApplyPatchOp("c1", AllOps)
    \/ PutDeleteLane("c1")
    \/ PutIncrement("c1")
    \/ PutReread("c1")
    \/ PutReturn("c1")
    \/ PutFinish("c1")

SpecOps == Init /\ [][NextOps]_vars

\* the server instance that takes the next request of the session
FreeSlot == IF put["c1"].pc = "idle" THEN "c1" ELSE "c2"

\* Publish button: handlePublish, then publish up to its fetch
\* (TimelineView.tsx 104-106, useTimeline.ts 186-199)
PublishClick ==
    /\ EditorShown
    /\ session.draft.isDirty
    /\ ~ToolbarButtonDisabled(session.isPublishing)
    /\ IF ~session.draft.isDirty \/ Len(session.draft.patchOps) = 0
       THEN /\ session' = [session EXCEPT !.returned = "true"]
            /\ UNCHANGED put
       ELSE /\ put[FreeSlot].pc = "idle"
            /\ timelineVersion[SessionWedding] + Cardinality(Pending) < MaxVersion
            /\ put' = [put EXCEPT ![FreeSlot] =
                         [PutIdle EXCEPT !.pc = "find", !.weddingId = SessionWedding,
                                         !.baseVersion = session.draft.baseVersion,
                                         !.nOps = Len(session.draft.patchOps)]]
            /\ session' = [session EXCEPT
                  !.isPublishing = TRUE,
                  !.returned = "none",
                  !.publish = [c \in DOMAIN session.publish \cup {FreeSlot} |->
                                  IF c = FreeSlot
                                  THEN [draft |-> session.draft, history |-> session.history]
                                  ELSE session.publish[c]]]
    /\ UNCHANGED <<dbVars, engineVars, libVars>>

\* the op list the request in slot c carries: the next op of a session
\* publish, or whatever another publisher sends
SlotOps(c) ==
    IF c \in DOMAIN session.publish
    THEN IF put[c].i < Len(session.publish[c].draft.patchOps)
         THEN {session.publish[c].draft.patchOps[put[c].i + 1]}
         ELSE {}
    ELSE RivalOps

\* a handling that takes every answer other than 409 for a success
ResOkAlways(status) == TRUE

\* Response.ok of fetch
ResOk(status) == status >= 200 /\ status <= 299

\* a publish that moves the draft to the server's version on a conflict
publishSettledRebases(s, call, status, data) ==
    IF status = 409
    THEN [s EXCEPT !.error = ConflictError(call.draft.baseVersion, data.currentVersion),
                   !.draft.baseVersion = data.currentVersion,
                   !.returned = "false"]
    ELSE IF ~ResOk(status)
    THEN [s EXCEPT !.error = PublishFailedError, !.returned = "false"]
    ELSE [s EXCEPT !.timeline = Snapshot(data),
                   !.draft = resetDraft(data.version),
                   !.history = clearHistory(call.history),
                   !.error = NoSessionError,
                   !.returned = "true"]

\* publish after its fetch resolved (useTimeline.ts 201-219), on the draft
\* and history the callback closed over
publishSettled(s, call, status, data) ==
    IF status = 409
    THEN [s EXCEPT !.error = ConflictError(call.draft.baseVersion, data.currentVersion),
                   !.returned = "false"]
    ELSE IF ~ResOk(status)
    THEN [s EXCEPT !.error = PublishFailedError, !.returned = "false"]
    ELSE [s EXCEPT !.timeline = Snapshot(data),
                   !.draft = resetDraft(data.version),
                   !.history = clearHistory(call.history),
                   !.error = NoSessionError,
                   !.returned = "true"]

\* the calls still awaited once the one in slot c has settled
Settled(c) == [d \in DOMAIN session.publish \ {c} |-> session.publish[d]]

\* the response reaches the session; handlePublish then clears isPublishing
\* (TimelineView.tsx 106-107)
PublishResolve(c) ==
    /\ c \in DOMAIN session.publish
    /\ put[c].pc = "done"
    /\ session' = [publishSettled(session, session.publish[c], put[c].status,
                                  put[c].response)
                      EXCEPT !.isPublishing = FALSE, !.publish = Settled(c)]
    /\ put' = [put EXCEPT ![c] = PutIdle]
    /\ UNCHANGED <<dbVars, engineVars, libVars>>

\* fetch rejects: the request never reached the handler, or its answer was
\* lost (useTimeline.ts 220-223)
PublishNetworkFail(c) ==
    /\ c \in DOMAIN session.publish
    /\ put[c].pc \in {"find", "done"}
    /\ session' = [session EXCEPT !.error = NetworkError, !.returned = "false",
                                  !.isPublishing = FALSE, !.publish = Settled(c)]
    /\ put' = [put EXCEPT ![c] = PutIdle]
    /\ UNCHANGED <<dbVars, engineVars, libVars>>

\* another publisher, who has loaded the current version, sends one op
RivalStart ==
    /\ put["c2"].pc = "idle"
    /\ timelineVersion[SessionWedding] + Cardinality(Pending) < MaxVersion
    /\ put' = [put EXCEPT !["c2"] =
                 [PutIdle EXCEPT !.pc = "find", !.weddingId = SessionWedding,
                                 !.baseVersion = timelineVersion[SessionWedding],
                                 !.nOps = Cardinality(RivalOps)]]
    /\ UNCHANGED <<dbVars, engineVars, libVars, sessionVars>>

\* another publisher's request leaves its handler
RivalFinish(c) ==
    /\ c \notin DOMAIN session.publish
    /\ PutFinish(c)

\* one session edits and publishes while another publisher writes the wedding
NextSession ==
    \/ GetTimeline
    \/ RefreshResolve
    \/ RefreshFail
    \/ RefreshClick
    \/ \E op \in SessionOps : ApplyPatch(op)
    \/ Undo
    \/ Redo
    \/ Discard
    \/ PublishClick
    \/ RivalStart
    \/ \E c \in Clients :
        \/ PutFindWedding(c)
        \/ PutConflict(c)
        \/ PutApplyPatchOp(c, SlotOps(c))
        \/ PutDeleteLane(c)
        \/ PutIncrement(c)
        \/ PutReread(c)
        \/ PutReturn(c)
        \/ PublishResolve(c)
        \/ PublishNetworkFail(c)
        \/ RivalFinish(c)

SpecSession == Init /\ [][NextSession]_vars

\* the events of a held snapshot as the list of TimelineEventItems the
\* reducer reads (route.ts 209-225)
RECURSIVE EventItems(_)
EventItems(rows) ==
    IF DOMAIN rows = {} THEN <<>>
    ELSE LET id == CHOOSE x \in DOMAIN rows : TRUE
         IN  <<[id |-> id, laneId |-> rows[id].laneId, title |-> rows[id].title,
                startUtc |-> rows[id].startUtc, endUtc |-> rows[id].endUtc,
                assignedOwner |-> rows[id].assignedOwnerName]>>
             \o EventItems(Remove(rows, {id}))

\* the lanes of a held snapshot as a list of TimelineLanes (route.ts 197-208)
RECURSIVE LaneItems(_)
LaneItems(rows) ==
    IF DOMAIN rows = {} THEN <<>>
    ELSE LET id == CHOOSE x \in DOMAIN rows : TRUE
         IN  <<[id |-> id, name |-> rows[id].name]>> \o LaneItems(Remove(rows, {id}))

\* a display that shows the held snapshot without the draft
displayEventsOfBase(timeline, patchOps) ==
    IF timeline.null THEN <<>> ELSE EventItems(timeline.events)

\* displayEvents and displayLanes for a snapshot and an op list
\* (useTimeline.ts 113-118)
displayEvents(timeline, patchOps) ==
    IF timeline.null THEN <<>>
    ELSE applyDraftToEvents(EventItems(timeline.events), patchOps)
displayLanes(timeline, patchOps) ==
    IF timeline.null THEN <<>>
    ELSE applyDraftToLanes(LaneItems(timeline.lanes), patchOps)

\* one session alone on its wedding drafts ops of every variant, with times
\* on whole minutes inside the window, and publishes them
NextDisplay ==
    \/ GetTimeline
    \/ RefreshResolve
    \/ \E op \in PreviewOps : ApplyPatch(op)
    \/ PublishClick
    \/ PutFindWedding("c1")
    \/ PutApplyPatchOp("c1", SlotOps("c1"))
    \/ PutDeleteLane("c1")
    \/ PutIncrement("c1")
    \/ PutReread("c1")
    \/ PutReturn("c1")
    \/ PublishResolve("c1")

SpecDisplay == Init /\ [][NextDisplay]_vars

\* handlePublish called again while an error is set and nothing was
\* reloaded, by a caller that awaits each call; the view itself offers only
\* "Try again" then (TimelineView.tsx 104-108, useTimeline.ts 186-199)
PublishRetry ==
    /\ ~session.isLoading
    /\ session.error # NoSessionError
    /\ DOMAIN session.publish = {}
    /\ IF ~session.draft.isDirty \/ Len(session.draft.patchOps) = 0
       THEN /\ session' = [session EXCEPT !.returned = "true"]
            /\ UNCHANGED put
       ELSE /\ put[FreeSlot].pc = "idle"
            /\ timelineVersion[SessionWedding] + Cardinality(Pending) < MaxVersion
            /\ put' = [put EXCEPT ![FreeSlot] =
                         [PutIdle EXCEPT !.pc = "find", !.weddingId = SessionWedding,
                                         !.baseVersion = session.draft.baseVersion,
                                         !.nOps = Len(session.draft.patchOps)]]
            /\ session' = [session EXCEPT
                  !.isPublishing = TRUE,
                  !.returned = "none",
                  !.publish = [c \in {FreeSlot} |->
                                  [draft |-> session.draft, history |-> session.history]]]
    /\ UNCHANGED <<dbVars, engineVars, libVars>>

\* the session on a network that loses nothing, with a caller that publishes
\* again after a failure
NextRetry ==
    \/ GetTimeline
    \/ RefreshResolve
    \/ RefreshClick
    \/ \E op \in SessionOps : ApplyPatch(op)
    \/ Undo
    \/ Discard
    \/ PublishClick
    \/ PublishRetry
    \/ RivalStart
    \/ \E c \in Clients :
        \/ PutFindWedding(c)
        \/ PutConflict(c)
        \/ PutApplyPatchOp(c, SlotOps(c))
        \/ PutDeleteLane(c)
        \/ PutIncrement(c)
        \/ PutReread(c)
        \/ PutReturn(c)
        \/ PublishResolve(c)
        \/ RivalFinish(c)

SpecRetry == Init /\ [][NextRetry]_vars

\* a fresh history of each capacity taken through every call sequence
InitHistory ==
    /\ ServerInit /\ EngineInit /\ SessionInit
    /\ HistInit /\ PreviewIdleInit /\ WinIdleInit /\ CanvasIdleInit /\ HookIdleInit
SpecHistory == InitHistory /\ [][NextHistory]_vars

\* one TimelineCanvas from its first render on
InitCanvas ==
    /\ ServerInit /\ EngineInit /\ SessionInit
    /\ HistIdleInit /\ PreviewIdleInit /\ WinIdleInit /\ CanvasInit /\ HookIdleInit
SpecCanvas == InitCanvas /\ [][NextCanvas]_vars

\* the same canvas when the browser keeps its promises: the effects of the
\* first commit run, every pending import settles and every requested
\* animation frame fires; renders are up to the parent and the user
SpecCanvasLive ==
    /\ SpecCanvas
    /\ WF_vars(CanvasMount)
    /\ \A k \in RunIds : WF_vars(InitResolve(k) \/ InitFail(k))
    /\ \A w \in RunIds : WF_vars(RafFire(w))

\* the callbacks of one useTimeline called in any order, also several times
\* between two renders
InitHook ==
    /\ ServerInit /\ EngineInit /\ SessionInit
    /\ HistIdleInit /\ PreviewIdleInit /\ WinIdleInit /\ CanvasIdleInit /\ HookInit
SpecHook == InitHook /\ [][NextHook]_vars

\* the window calculator called for every date, zone and time of call
InitWindow ==
    /\ ServerInit /\ EngineInit /\ SessionInit
    /\ HistIdleInit /\ PreviewIdleInit /\ WinInit /\ CanvasIdleInit /\ HookIdleInit
SpecWindow == InitWindow /\ [][NextWindow]_vars

\* the draft reducer run on every snapshot and op list up to the bound
InitPreview ==
    /\ ServerInit /\ EngineInit /\ SessionInit
    /\ HistIdleInit /\ PreviewInit /\ WinIdleInit /\ CanvasIdleInit /\ HookIdleInit
SpecPreview == InitPreview /\ [][NextPreview]_vars

\* the Snap/Clamp engine called with every sampled interval and window
SpecEngine == Init /\ [][EngineNext]_vars

(***************************************************************************)
(* Properties of the Snap/Clamp engine (checked under SpecEngine)          *)
(***************************************************************************)
MinuteAligned(t) == t % SecondsPerMinute = 0
OneMinute == 1 * SecondsPerMinute
\* the nearest minute boundary, an exact half minute going to the later one
NearestMinute(t) ==
    IF 2 * (t % SecondsPerMinute) >= SecondsPerMinute
    THEN t - (t % SecondsPerMinute) + SecondsPerMinute
    ELSE t - (t % SecondsPerMinute)

\* C7 as stated: every output of processEventTimes is minute-aligned, at
\* least one minute long and inside [windowStart, windowEnd].
C7_OutputAlwaysWellFormed ==
    engine.pc = "done" =>
        /\ MinuteAligned(engine.start) /\ MinuteAligned(engine.end)
        /\ engine.end - engine.start >= OneMinute
        /\ engineIn.windowStart <= engine.start /\ engine.start <= engineIn.windowEnd
        /\ engineIn.windowStart <= engine.end /\ engine.end <= engineIn.windowEnd

\* C7 amended: every output of processEventTimes is minute-aligned and inside
\* [windowStart, windowEnd]; it is at least one minute long exactly when the
\* engine reports valid = true, and otherwise end <= start.
C7_OutputWellFormedWhenValid ==
    engine.pc = "done" =>
        /\ MinuteAligned(engine.start) /\ MinuteAligned(engine.end)
        /\ engineIn.windowStart <= engine.start /\ engine.start <= engineIn.windowEnd
        /\ engineIn.windowStart <= engine.end /\ engine.end <= engineIn.windowEnd
        /\ engine.valid <=> (engine.end - engine.start >= OneMinute)
        /\ ~engine.valid => engine.end <= engine.start

\* a valid result whose start was snapped and whose end was clamped
C7_Witness ==
    /\ engine.pc = "done" /\ engine.valid
    /\ ~MinuteAligned(engineIn.start) /\ engineIn.end > engineIn.windowEnd
    /\ engine.end = engineIn.windowEnd

\* C8: snap yields the nearest minute boundary, a half minute rounding up,
\* with zero seconds.
C8_SnapRoundsToNearest ==
    engine.pc = "snapped" =>
        /\ MinuteAligned(engine.start) /\ MinuteAligned(engine.end)
        /\ engine.start = NearestMinute(engineIn.start)
        /\ engine.end = NearestMinute(engineIn.end)

\* C9: the steps run in the order snap, minimum duration, clamp; minimum
\* duration pushes end to start + 1 minute and leaves start alone; clamp
\* raises a start below windowStart and lowers an end above windowEnd; the
\* worked example ends as 07:00Z..08:00Z.
C9_SnapMinDurationClampOrder ==
    [][/\ engine.pc = "called" => engine'.pc = "snapped"
       /\ engine.pc = "snapped" =>
            /\ engine'.pc = "min"
            /\ engine'.start = engine.start
            /\ engine'.end = IF engine.end - engine.start < OneMinute
                             THEN engine.start + OneMinute ELSE engine.end
       /\ engine.pc = "min" =>
            /\ engine'.pc = "clamped"
            /\ engine.start < engineIn.windowStart => engine'.start = engineIn.windowStart
            /\ engine.end > engineIn.windowEnd => engine'.end = engineIn.windowEnd
            /\ (engineIn.windowStart <= engine.start /\ engine.start <= engineIn.windowEnd)
                  => engine'.start = engine.start
            /\ (engineIn.windowStart <= engine.end /\ engine.end <= engineIn.windowEnd)
                  => engine'.end = engine.end
       /\ engine.pc = "clamped" =>
            /\ engine'.pc = "done"
            /\ engine'.start = engine.start /\ engine'.end = engine.end
            /\ (engineIn.start = ExampleStart /\ engineIn.end = ExampleEnd
                /\ engineIn.windowStart = ExampleWindowStart
                /\ engineIn.windowEnd = ExampleWindowEnd)
                  => (engine'.start = ExampleWindowStart /\ engine'.end = ExampleEnd)
      ]_vars

\* minimum duration pushed the end and clamp then raised the start
C9_Witness ==
    /\ engine.pc = "clamped"
    /\ engineIn.end < engineIn.start
    /\ engineIn.start < engineIn.windowStart - OneMinute
    /\ engine.start = engineIn.windowStart

(***************************************************************************)
(* Properties of the Reconciliation Service                                *)
(***************************************************************************)
\* client c takes the step
Steps(c) == put'[c] # put[c]
TimeBearing(o) == o.op \in {"create_event", "update_event_time"}
TargetId(o) == IF o.op = "create_event" THEN o.id ELSE o.eventId
\* the step is an iteration of the op loop that applied its op
Applies(c) == put[c].pc = "apply" /\ put'[c].i = put[c].i + 1

\* C1: a publish whose baseVersion differs from the version the handler
\* reads is answered 409 with that version and the lanes and events of the
\* wedding as getFullTimeline reads them, and none of its steps writes.
C1_ConflictRejected ==
    [][\A c \in Clients :
        LET w == put[c].weddingId IN
        /\ (Steps(c) /\ put[c].pc = "find" /\ timelineVersion[w] # put[c].baseVersion) =>
              /\ put'[c].pc = "conflict"
              /\ put'[c].wedding = timelineVersion[w]
              /\ UNCHANGED dbVars
        /\ (Steps(c) /\ put[c].pc = "conflict") =>
              /\ put'[c].pc = "done" /\ put'[c].status = 409
              /\ put'[c].response.currentVersion = put[c].wedding
              /\ put'[c].response.currentVersion # put[c].baseVersion
              /\ put'[c].response.lanes = RowsOf(lanes, w)
              /\ put'[c].response.events = RowsOf(events, w)
              /\ put'[c].i = 0 /\ ~put'[c].mutated
              /\ UNCHANGED dbVars
       ]_vars

\* client A's stale publish (base 0) is answered 409 with version 1 after
\* another publish moved the wedding to version 1
C1_Witness ==
    \E c \in Clients :
        /\ put[c].pc = "done" /\ put[c].status = 409
        /\ put[c].baseVersion = 0
        /\ put[c].response.currentVersion = 1
        /\ timelineVersion["w1"] = 1
        /\ put[c].response.events = RowsOf(events, "w1")
        /\ "e1" \notin DOMAIN events

\* C2: two publishes carrying the same baseVersion are never both answered
\* with success.
C2_AtMostOneSuccessPerBaseVersion ==
    \A c \in Clients, d \in Clients :
        (c # d /\ put[c].pc = "done" /\ put[d].pc = "done"
         /\ put[c].baseVersion = put[d].baseVersion)
            => ~(put[c].status = 200 /\ put[d].status = 200)

\* C3: a publish answered with an error has applied none of its ops and has
\* changed no lane and no event.
C3_AllOrNothing ==
    \A c \in Clients :
        (put[c].pc = "done" /\ put[c].status = 500) => (put[c].i = 0 /\ ~put[c].mutated)

\* C4: the version moves only by +1, in a publish that is then answered with
\* success, and a publish that changed a lane or an event is one that
\* increments the version.
C4_VersionPairedWithChanges ==
    [][/\ \A w \in Weddings :
            /\ timelineVersion'[w] >= timelineVersion[w]
            /\ timelineVersion'[w] # timelineVersion[w] =>
                  /\ timelineVersion'[w] = timelineVersion[w] + 1
                  /\ \E c \in Clients : Steps(c) /\ put[c].i = put[c].nOps
                                        /\ put'[c].pc = "reread"
       /\ \A c \in Clients :
            /\ (Steps(c) /\ put[c].pc = "return") => put'[c].status = 200
            /\ (put'[c].pc = "done" /\ put'[c].mutated) => put'[c].status = 200
      ]_vars

\* C5: every event of the wedding is at least one minute long, starts in
\* [windowStart, windowEnd) and ends in (windowStart, windowEnd].
C5_EventsWithinWindow ==
    \A id \in DOMAIN events :
        events[id].weddingId = "w1" =>
            /\ events[id].endUtc > events[id].startUtc
            /\ events[id].endUtc - events[id].startUtc >= OneMinute
            /\ WS <= events[id].startUtc /\ events[id].startUtc < WE
            /\ WS < events[id].endUtc /\ events[id].endUtc <= WE

\* C6: a time-bearing op is applied only when processEventTimes reports the
\* requested interval valid, and then the stored start and end are the ones
\* processEventTimes yields.
C6_ServiceStoresEngineResult ==
    [][\A c \in Clients :
        (Steps(c) /\ put[c].pc = "apply" /\ put'[c].op # NoOp /\ put[c].i < put[c].nOps
         /\ TimeBearing(put'[c].op)) =>
            LET o == put'[c].op
                w == WeddingWindow(put[c].weddingId)
                pet == processEventTimes(o.startUtc, o.endUtc,
                                         w.windowStartUtc, w.windowEndUtc)
            IN  /\ ~pet.valid => (put'[c].pc = "done" /\ put'[c].status = 500)
                /\ Applies(c) =>
                      /\ events'[TargetId(o)].startUtc = pet.start
                      /\ events'[TargetId(o)].endUtc = pet.end
       ]_vars

\* C10: an op whose interval has collapsed after clamping (end <= start) is
\* never accepted by the service, and the engine flags it invalid with an
\* error.
C10_CollapsedIntervalReported ==
    [][/\ \A c \in Clients :
            (Steps(c) /\ Applies(c) /\ TimeBearing(put'[c].op)) =>
                events'[TargetId(put'[c].op)].endUtc > events'[TargetId(put'[c].op)].startUtc
       /\ (engine'.pc = "done" /\ engine'.end <= engine'.start) =>
            (~engine'.valid /\ engine'.error = EndAfterStartError)
      ]_vars

\* the step is an iteration of the op loop of client c
Iterates(c) == Steps(c) /\ put[c].pc = "apply" /\ put[c].i < put[c].nOps
EventEditKinds ==
    {"update_event_time", "update_event_lane", "update_event_title",
     "update_event_owner", "delete_event"}
\* the op names an event no row has, or moves an event to a lane no row has
TargetAbsent(o) ==
    /\ o.op \in EventEditKinds
    /\ \/ o.eventId \notin DOMAIN events
       \/ o.op = "update_event_lane" /\ o.laneId \notin DOMAIN lanes

\* C11: an op that edits or deletes an event no row has, or moves an event
\* to a lane no row has, ends the publish with an error, and that publish
\* as a whole has changed no lane and no event.
C11_NotFoundFailsWholePublish ==
    [][\A c \in Clients :
        (Iterates(c) /\ TargetAbsent(put'[c].op)) =>
            /\ put'[c].pc = "done" /\ put'[c].status = 500
            /\ lanes' = lanes /\ events' = events
            /\ ~put'[c].mutated
      ]_vars

C13_EventLaneInSameWedding ==
    \A id \in DOMAIN events :
        /\ events[id].laneId \in DOMAIN lanes
        /\ lanes[events[id].laneId].weddingId = events[id].weddingId

\* C14: between the two calls of a delete_lane the lane is never still
\* stored while another request reads the timeline.
C14_DeleteLaneAtomic ==
    [][\A c, d \in Clients :
        (c # d /\ put[c].pc = "deleteLane" /\ put[c].op.laneId \in DOMAIN lanes) =>
            ~(Steps(d) /\ put[d].pc \in {"conflict", "return"})
      ]_vars

\* C15: an op that edits or deletes a locked event of the wedding ends the
\* publish with an error and leaves the event as it was.
C15_LockedEventRejected ==
    [][\A c \in Clients :
        (/\ Iterates(c)
         /\ put'[c].op.op \in EventEditKinds
         /\ put'[c].op.eventId \in DOMAIN events
         /\ events[put'[c].op.eventId].weddingId = put[c].weddingId
         /\ events[put'[c].op.eventId].locked) =>
            /\ put'[c].pc = "done" /\ put'[c].status = 500
            /\ events' = events
      ]_vars

(***************************************************************************)
(* Properties of the Timeline Session Controller                           *)
(***************************************************************************)
\* publish requests of the session that await their response
InFlight == DOMAIN session.publish
\* the step hands the answer of the request in slot c to publish
Answered(c) ==
    /\ c \in InFlight /\ c \notin DOMAIN session'.publish
    /\ put[c].pc = "done"
    /\ session'.error # NetworkError

\* C16: the session never has two publish requests in flight, and while one
\* is in flight the view is in its publishing state, in which the Publish
\* button, the only trigger of publish, takes no click.
C16_SinglePublishInFlight ==
    /\ Cardinality(InFlight) <= 1
    /\ InFlight # {} => session.isPublishing

\* a publish is in flight while the editor shows a dirty draft and a server
\* instance is free to take a second request
C16_Witness ==
    /\ InFlight = {"c1"}
    /\ EditorShown /\ session.draft.isDirty
    /\ put["c2"].pc = "idle"
    /\ put["c1"].pc = "apply"

\* C17: while a publish is in flight no op enters or leaves the draft, and
\* when its answer is handled the draft holds exactly the ops that were sent.
C17_NoEditDuringPublish ==
    [][\A c \in InFlight :
        /\ c \in DOMAIN session'.publish =>
              session'.draft.patchOps = session.draft.patchOps
        /\ Answered(c) =>
              session.draft.patchOps = session.publish[c].draft.patchOps
      ]_vars

\* C18: when the 200 answer of a publish is handled, the held snapshot
\* becomes the returned one, the draft becomes the empty clean draft at the
\* returned version, both history stacks become empty and the error is
\* cleared.
C18_SuccessResetsSession ==
    [][\A c \in InFlight :
        (Answered(c) /\ put[c].status = 200) =>
            /\ session'.timeline = Snapshot(put[c].response)
            /\ session'.draft = [baseVersion |-> put[c].response.version,
                                 patchOps |-> <<>>, isDirty |-> FALSE]
            /\ session'.history.past = <<>> /\ session'.history.future = <<>>
            /\ ~canUndo(session'.history) /\ ~canRedo(session'.history)
            /\ session'.error = NoSessionError
      ]_vars

\* a publish of the retitling of e1 has just succeeded: the session holds
\* version 1 with the new title and an empty draft and history
C18_Witness ==
    /\ session.returned = "true"
    /\ session.timeline.version = 1
    /\ "e1" \in DOMAIN session.timeline.events
    /\ session.timeline.events["e1"].title = "t2"
    /\ session.draft = createDraftState(1)
    /\ session.history.past = <<>> /\ session.history.future = <<>>

\* C19: when a publish fails, by a 409 answer, an error answer or a rejected
\* fetch, the step that handles the failure leaves the draft and both
\* history stacks as they are.
C19_FailureKeepsDraft ==
    [][\A c \in InFlight :
        (/\ c \notin DOMAIN session'.publish
         /\ \/ session'.error = NetworkError
            \/ put[c].pc = "done" /\ put[c].status # 200) =>
            /\ session'.draft = session.draft
            /\ session'.history = session.history
            /\ session'.timeline = session.timeline
            /\ session'.error # NoSessionError
      ]_vars

\* a publish of two ops has just been answered with an error and both ops
\* are still in the draft and in the undo stack
C19_Witness ==
    /\ session.returned = "false"
    /\ session.error = PublishFailedError
    /\ Len(session.draft.patchOps) = MaxDraft
    /\ session.draft.isDirty
    /\ Len(session.history.past) = MaxDraft

\* C20: when a 409 answer is handled, the session exposes the version it
\* sent, the version the server reports and the lanes and events the answer
\* carries.
C20_ConflictSurfacesSnapshot ==
    [][\A c \in InFlight :
        (Answered(c) /\ put[c].status = 409) =>
            /\ session'.error.yourVersion = session.publish[c].draft.baseVersion
            /\ session'.error.currentVersion = put[c].response.currentVersion
            /\ session'.timeline = Snapshot(put[c].response)
      ]_vars

(***************************************************************************)
(* Properties of the history stack (checked under SpecHistory)             *)
(***************************************************************************)
Front(q) == SubSeq(q, 1, Len(q) - 1)
Last(q) == q[Len(q)]
\* the trailing n elements of q, all of q when it is shorter
Newest(q, n) == IF Len(q) > n THEN SubSeq(q, Len(q) - n + 1, Len(q)) ELSE q

\* C21: a record leaves its batch as the newest entry of past, one entry
\* past the entries that were there, and leaves future empty, so that a
\* redo after it returns the null batch and changes nothing.
C21_RecordIsLinear ==
    hist.call = "record" =>
        /\ hist.history.past # <<>>
        /\ Last(hist.history.past) = hist.arg
        /\ Front(hist.history.past) = Newest(hist.input.past, Len(hist.history.past) - 1)
        /\ hist.history.future = <<>>
        /\ ~canRedo(hist.history)
        /\ historyRedo(hist.history) = [newHistory |-> hist.history, patchOps |-> NoBatch]

\* a batch was undone and a different batch has been recorded since
C21_Witness ==
    /\ hist.call = "record"
    /\ hist.input.future # <<>>
    /\ hist.input.future[1] # hist.arg
    /\ hist.input.past # <<>>

\* C22: past never holds more than maxSize batches, and after a record it
\* holds the newest maxSize of the former batches followed by the recorded
\* one, in their order.
C22_PastBounded ==
    /\ Len(hist.history.past) <= hist.history.maxSize
    /\ hist.call = "record" =>
          hist.history.past = Newest(Append(hist.input.past, hist.arg), hist.history.maxSize)

\* a record on a full stack of two distinct batches evicted the older one
C22_Witness ==
    /\ hist.call = "record"
    /\ hist.history.maxSize = HistoryCap
    /\ Len(hist.input.past) = HistoryCap
    /\ hist.input.past[1] # hist.input.past[2]
    /\ hist.history.past[1] = hist.input.past[2]
    /\ hist.arg # hist.input.past[2]

RECURSIVE UndoTimes(_, _)
UndoTimes(s, k) == IF k = 0 THEN s ELSE UndoTimes(undo(s), k - 1)
RECURSIVE RedoTimes(_, _)
RedoTimes(s, k) == IF k = 0 THEN s ELSE RedoTimes(redo(s), k - 1)

\* C24: from every session state, k undos followed by k redos, for every k
\* up to the number of batches in past, give back the same past, the same
\* future and the same draft op list in the same order.
C24_UndoRedoRestores ==
    \A k \in 1..Len(session.history.past) :
        LET r == RedoTimes(UndoTimes(session, k), k)
        IN  /\ r.history = session.history
            /\ r.draft.patchOps = session.draft.patchOps

\* two different ops are drafted in two batches, and undoing both empties
\* the draft
C24_Witness ==
    /\ Len(session.history.past) = 2
    /\ Len(session.draft.patchOps) = 2
    /\ session.draft.patchOps[1] # session.draft.patchOps[2]
    /\ UndoTimes(session, 2).draft.patchOps = <<>>
    /\ Len(UndoTimes(session, 2).history.future) = 2

\* C25: the draft is dirty exactly when its op list is not empty.
C25_DirtyIffOps ==
    session.draft.isDirty <=> (session.draft.patchOps # <<>>)

\* the only drafted op has been undone: the draft is empty and clean while
\* the batch waits in future
C25_Witness ==
    /\ ~session.timeline.null
    /\ session.draft.patchOps = <<>>
    /\ ~session.draft.isDirty
    /\ Len(session.history.future) = 1

\* C26: a discard leaves the draft empty and clean at the base version it
\* had, leaves both history stacks empty, sends nothing to the server and
\* leaves the held snapshot as it is.
C26_DiscardResetsDraft ==
    [][Discard =>
        /\ session'.draft = [baseVersion |-> session.draft.baseVersion,
                             patchOps |-> <<>>, isDirty |-> FALSE]
        /\ session'.history.past = <<>> /\ session'.history.future = <<>>
        /\ session'.timeline = session.timeline
        /\ session'.load = session.load /\ session'.publish = session.publish
        /\ put' = put
        /\ timelineVersion' = timelineVersion /\ lanes' = lanes /\ events' = events
      ]_vars

\* a draft forked from version 1 is dirty with one batch done and one
\* undone: Discard is enabled on it
C26_Witness ==
    /\ ENABLED Discard
    /\ session.draft.baseVersion = 1
    /\ Len(session.history.past) = 1 /\ Len(session.history.future) = 1

\* C27: once a snapshot is held, the draft's baseVersion is the version of
\* that snapshot.
C27_BaseVersionIsHeldVersion ==
    ~session.timeline.null => session.draft.baseVersion = session.timeline.version

\* after a successful publish the session has edited again on version 1
C27_Witness ==
    /\ ~session.timeline.null
    /\ session.timeline.version = 1
    /\ session.draft.baseVersion = 1
    /\ session.draft.isDirty
    /\ timelineVersion[SessionWedding] = 1

\* C28: an undo cuts the draft's op list by the length of the newest batch
\* of past, a redo appends the front batch of future to it; neither sends a
\* request, and both leave the held snapshot, the draft's baseVersion and
\* the server's rows and version as they are.
C28_UndoRedoFrame ==
    [][/\ Undo =>
            session'.draft.patchOps =
                SubSeq(session.draft.patchOps, 1,
                       Len(session.draft.patchOps) - Len(Last(session.history.past)))
       /\ Redo =>
            session'.draft.patchOps =
                session.draft.patchOps \o Head(session.history.future)
       /\ (Undo \/ Redo) =>
            /\ session'.draft.baseVersion = session.draft.baseVersion
            /\ session'.timeline = session.timeline
            /\ session'.load = session.load /\ session'.publish = session.publish
            /\ put' = put
            /\ timelineVersion' = timelineVersion /\ lanes' = lanes /\ events' = events
      ]_vars

\* the second of two drafted ops has been undone while a publish of both is
\* in flight
C28_Witness ==
    /\ InFlight # {}
    /\ Len(session.history.future) = 1
    /\ Len(session.draft.patchOps) = 1
    /\ \A c \in InFlight :
          /\ Len(session.publish[c].draft.patchOps) = 2
          /\ session.draft.patchOps[1] = session.publish[c].draft.patchOps[1]

\* ---- draft reducer properties ----

\* the ops the reducer has consumed so far: all of them once its loop is over
EventOpsDone == IF preview.pc = "events" THEN preview.i ELSE Len(preview.patchOps)
LaneOpsDone ==
    CASE preview.pc = "events" -> 0
      [] preview.pc = "lanes" -> preview.i
      [] OTHER -> Len(preview.patchOps)
\* no op of one of the kinds names event id between positions a and b
NoEventOpBetween(kinds, id, a, b) ==
    \A r \in (a + 1)..b :
        LET o == preview.patchOps[r]
        IN  ~(/\ o.op \in kinds
              /\ (IF o.op = "create_event" THEN o.id ELSE o.eventId) = id)
NoLaneOpBetween(kinds, id, a, b) ==
    \A r \in (a + 1)..b :
        LET o == preview.patchOps[r]
        IN  ~(/\ o.op \in kinds
              /\ (IF o.op = "create_lane" THEN o.id ELSE o.laneId) = id)
\* the event with the id shows the fields the update op carries
ShowsUpdate(e, o) ==
    CASE o.op = "update_event_time" -> e.startUtc = o.startUtc /\ e.endUtc = o.endUtc
      [] o.op = "update_event_lane" -> e.laneId = o.laneId
      [] o.op = "update_event_title" -> e.title = o.title
      [] OTHER -> FALSE

\* C29: the reducer folds the op list in order, so what its loop has
\* accumulated at its return is what the function gives on the whole list: once an update_event_time,
\* update_event_lane or update_event_title has been consumed after a
\* create_event of the same id (no delete_event of that id since the create, no
\* later update of the same kind), the accumulated list holds the created event
\* with the updated fields; once a delete_event has been consumed and no
\* create_event of that id after it, no event of that id is in the accumulated
\* list whatever ops followed; lanes likewise
C29_ReducerFoldsInOrder ==
    LET ops == preview.patchOps
        n == EventOpsDone
        m == LaneOpsDone
    IN  /\ preview.pc \in {"lanes", "done"} =>
                preview.result = applyDraftToEvents(preview.events, ops)
        /\ preview.pc = "done" =>
                preview.laneResult = applyDraftToLanes(preview.lanes, ops)
        /\ \A p \in 1..n : \A q \in (p + 1)..n :
            (/\ ops[p].op = "create_event"
             /\ ops[q].op \in {"update_event_time", "update_event_lane", "update_event_title"}
             /\ ops[q].eventId = ops[p].id
             /\ NoEventOpBetween({"delete_event"}, ops[p].id, p, n)
             /\ NoEventOpBetween({ops[q].op}, ops[p].id, q, n))
            => \E k \in 1..Len(preview.result) :
                    /\ preview.result[k].id = ops[p].id
                    /\ ShowsUpdate(preview.result[k], ops[q])
        /\ \A p \in 1..n :
            (/\ ops[p].op = "delete_event"
             /\ NoEventOpBetween({"create_event"}, ops[p].eventId, p, n))
            => \A k \in 1..Len(preview.result) : preview.result[k].id # ops[p].eventId
        /\ \A p \in 1..m : \A q \in (p + 1)..m :
            (/\ ops[p].op = "create_lane"
             /\ ops[q].op = "update_lane"
             /\ ops[q].laneId = ops[p].id
             /\ NoLaneOpBetween({"delete_lane"}, ops[p].id, p, m))
            => \E k \in 1..Len(preview.laneResult) :
                    /\ preview.laneResult[k].id = ops[p].id
                    /\ preview.laneResult[k].name = ops[q].name
        /\ \A p \in 1..m :
            (/\ ops[p].op = "delete_lane"
             /\ NoLaneOpBetween({"create_lane"}, ops[p].laneId, p, m))
            => \A k \in 1..Len(preview.laneResult) :
                    preview.laneResult[k].id # ops[p].laneId
\* an event created and retitled in one draft over an empty snapshot, and a
\* deleted snapshot event that a later update did not bring back
C29_Witness ==
    /\ preview.pc = "done"
    /\ Len(preview.patchOps) = 3
    /\ preview.events = <<PreviewEvent("e2"), PreviewEvent("e1")>>
    /\ preview.patchOps[1].op = "delete_event"
    /\ preview.patchOps[2].op = "create_event"
    /\ preview.patchOps[3].op = "update_event_title"
    /\ preview.result =
         <<PreviewEvent("e2"),
           [EventOf(preview.patchOps[2]) EXCEPT !.title = preview.patchOps[3].title]>>

\* C30: a reducer step whose op (delete_event, update_event_*, update_lane,
\* delete_lane) names an id no element of the accumulated list has leaves the
\* list as it is and moves on to the next op, and a delete_event that repeats
\* the op before it changes nothing
C30_AbsentIdIsNoOp ==
    [][/\ PreviewEventOp =>
            LET o == preview.patchOps[preview.i + 1]
                absent == /\ o.op \in {"delete_event", "update_event_time",
                                       "update_event_lane", "update_event_title",
                                       "update_event_owner"}
                          /\ \A k \in 1..Len(preview.result) :
                                preview.result[k].id # o.eventId
                again == /\ preview.i >= 1
                         /\ o.op = "delete_event"
                         /\ preview.patchOps[preview.i] = o
            IN  (absent \/ again) =>
                    /\ preview'.result = preview.result
                    /\ preview'.i = preview.i + 1
                    /\ preview'.pc = "events"
                    /\ preview'.patchOps = preview.patchOps
       /\ PreviewLaneOp =>
            LET o == preview.patchOps[preview.i + 1]
                absent == /\ o.op \in {"update_lane", "delete_lane"}
                          /\ \A k \in 1..Len(preview.laneResult) :
                                preview.laneResult[k].id # o.laneId
            IN  absent =>
                    /\ preview'.laneResult = preview.laneResult
                    /\ preview'.i = preview.i + 1
                    /\ preview'.pc = "lanes"
                    /\ preview'.patchOps = preview.patchOps]_vars
\* over an empty snapshot an update_lane and a delete_event name absent ids,
\* and the create_event after them is applied
C30_Witness ==
    /\ preview.pc = "done"
    /\ preview.events = <<>>
    /\ preview.lanes = <<>>
    /\ Len(preview.patchOps) = 3
    /\ preview.patchOps[1].op = "update_lane"
    /\ preview.patchOps[2].op = "delete_event"
    /\ preview.patchOps[3].op = "create_event"
    /\ preview.result = <<EventOf(preview.patchOps[3])>>
    /\ preview.laneResult = <<>>

\* ---- cross-wedding frame ----

\* C34: a publish addressed to wedding w1 leaves the lanes, the events and
\* the version of the other wedding as they were stored: every step of a PUT
\* keeps the rows whose weddingId is not the addressed wedding's.
C34_OtherWeddingUntouched ==
    [][\A c \in Clients : Steps(c) =>
          \A w \in Weddings \ {put[c].weddingId} :
              /\ RowsOf(events', w) = RowsOf(events, w)
              /\ RowsOf(lanes', w) = RowsOf(lanes, w)
              /\ timelineVersion'[w] = timelineVersion[w]
      ]_vars

\* ---- window calculator properties ----

\* the local wall-clock hour the zone shows at an instant
LocalAt(zone, ts) == ts + ZoneOffset(zone, ts)
\* the zone moves its clocks after from and not after to
TransitionInside(zone, from, to) ==
    /\ zone.dst
    /\ \/ (from < SpringInstant(zone) /\ SpringInstant(zone) <= to)
       \/ (from < FallInstant(zone) /\ FallInstant(zone) <= to)
WinValidInput == win.weddingDate.valid /\ ZoneNamed(win.zone).valid

\* C31: for a valid date and zone the returned windowStart is the instant at
\* which the zone shows 03:00 on the wedding date and windowEnd the instant
\* at which it shows 03:00 on the following date; they are 24 hours apart,
\* or 23 or 25 when the zone moves its clocks in between; for the example day
\* in America/New_York they are 07:00Z of that day and of the next.
C31_WindowIsLocalThreeToThree ==
    (win.pc \in {"respond", "done"} /\ WinValidInput) =>
        LET zone == ZoneNamed(win.zone)
            start == win.windowStartUtc
            end == win.windowEndUtc
            day == win.weddingDate.day
        IN  /\ ~start.isNull /\ ~end.isNull
            /\ LocalAt(zone, start.ts) = day * HoursPerDay + TIMELINE_WINDOW_START_HOUR
            /\ LocalAt(zone, end.ts) = (day + 1) * HoursPerDay + TIMELINE_WINDOW_START_HOUR
            /\ end.ts - start.ts \in {HoursPerDay - 1, HoursPerDay, HoursPerDay + 1}
            /\ ~TransitionInside(zone, start.ts, end.ts) => end.ts - start.ts = HoursPerDay
            /\ (win.zone = "America/New_York" /\ day = ExampleDay) =>
                    /\ start.ts = day * HoursPerDay + 7
                    /\ end.ts = (day + 1) * HoursPerDay + 7

\* C32: a GET whose wedding has an invalid date or an invalid timezone id
\* ends with an error status; it never answers 200 with a window.
C32_InvalidInputIsAnError ==
    (win.pc = "done" /\ ~WinValidInput) => win.status >= 400

\* ---- canvas properties ----

\* C33: a step of the canvas calls onUpdateEventTime, onUpdateEventLane or
\* onSelectEvent only when the lifecycle is 'ready' as the widget's event
\* arrives; a move arriving in any other state is answered with
\* callback(null) and a select is ignored, and neither calls a callback.
C33_IntentsOnlyWhenReady ==
    [][/\ canvas'.delivered # <<>> => canvas.lifecycleRef = "ready"
       /\ \A w \in RunIds :
            (canvas.lifecycleRef # "ready" /\ WidgetMove(w)) =>
                (canvas'.delivered = <<>> /\ canvas'.moveCallback = "null")
       /\ \A w \in RunIds :
            (canvas.lifecycleRef # "ready" /\ WidgetSelect(w)) => canvas'.delivered = <<>>
      ]_vars
\* an item was dropped between the cleanup and the deferred destroy: the
\* move was cancelled
C33_Witness ==
    /\ canvas.lifecycleRef = "destroying"
    /\ canvas.raf # {}
    /\ canvas.moveCallback = "null"
    /\ canvas.delivered = <<>>

\* widgets that exist and have not been destroyed
LiveWidgets(cv) == {w \in RunIds : cv.widgets[w] \in {"live", "cleared"}}

\* C40: after every step at most one widget exists that has not been
\* destroyed and timelineRef is null or names a widget that has not been
\* destroyed; a step that creates the widget of a run happens before that
\* run's cleanup.
C40_OneLiveWidget ==
    [][/\ Cardinality(LiveWidgets(canvas')) <= 1
       /\ canvas'.timelineRef # NullRef => canvas'.widgets[canvas'.timelineRef] # "destroyed"
       /\ \A k \in RunIds :
            (canvas.widgets[k] = "none" /\ canvas'.widgets[k] # "none") =>
                canvas.runs[k].mounted
      ]_vars

\* C38: while the component stays mounted, a teardown of a ready widget
\* (the cleanup has nulled the refs and requested the destroy) is eventually
\* followed by a lifecycle of 'ready' again.
C38_TeardownLeadsToReady ==
    (canvas.phase = "mounted" /\ canvas.lifecycleRef = "destroying" /\ canvas.raf # {})
        ~> (canvas.lifecycleRef = "ready" \/ canvas.phase = "removed")

\* C39: once the lifecycle is 'ready', the widget's data sets eventually
\* hold the data props the component has, unless the widget is torn down
\* first.
C39_ReadyLeadsToSynced ==
    (canvas.phase = "mounted" /\ canvas.lifecycleRef = "ready")
        ~> \/ canvas.phase = "removed"
           \/ canvas.lifecycleRef # "ready"
           \/ /\ canvas.timelineRef # NullRef
              /\ canvas.shown[canvas.timelineRef] = canvas.dataVersion

\* ---- draft against history ----

\* the batches of a stack joined in order
RECURSIVE Flatten(_)
Flatten(batches) ==
    IF batches = <<>> THEN <<>> ELSE Head(batches) \o Flatten(Tail(batches))

\* C35: whatever callbacks of the hook have been called, also several
\* between two renders, the draft's op list is the batches of history.past
\* joined in order (no batch is evicted: the stacks stay far below maxSize).
C35_DraftIsPastJoined ==
    hook.pc = "rendered" => hook.draft.patchOps = Flatten(hook.history.past)

\* the step that handled a 409 answer for base version b has just been taken
RejectedAt(b) ==
    /\ session.returned = "false"
    /\ session.error = ConflictError(b, session.error.currentVersion)
    /\ session.error # NoSessionError

\* a draft forked from b is behind the server, and no request of the session
\* that carries b has been answered with anything but 409
StaysRejected(b) ==
    /\ session.draft.baseVersion = b => b < timelineVersion[SessionWedding]
    /\ \A c \in InFlight :
          (put[c].baseVersion = b /\ put[c].pc = "done") => put[c].status = 409

\* the draft is behind the server and no success of the session awaits handling
StaleDraft ==
    /\ session.draft.baseVersion < timelineVersion[SessionWedding]
    /\ \A c \in InFlight : ~(put[c].pc = "done" /\ put[c].status = 200)

\* C37: once a publish of a draft forked from b was answered 409, the draft
\* stays behind the server for as long as it keeps b, every later request
\* that carries b is answered 409, and a step from a stale draft either keeps
\* its base version, where ops leave the draft only by undo or discard, or is
\* the end of a reload, which sets the empty draft at the loaded version.
C37_ConflictIsFinal ==
    /\ \A b \in 0..MaxVersion : [](RejectedAt(b) => []StaysRejected(b))
    /\ [][StaleDraft =>
            \/ /\ session'.draft.baseVersion = session.draft.baseVersion
               /\ session'.draft.baseVersion < timelineVersion'[SessionWedding]
               /\ Len(session'.draft.patchOps) < Len(session.draft.patchOps) =>
                     \/ session' = [undo(session) EXCEPT !.returned = "none"]
                     \/ session'.draft = createDraftState(session.draft.baseVersion)
            \/ /\ session.load.pc = "responded"
               /\ session'.draft = createDraftState(session.load.response.version)
               /\ session'.history.past = <<>>
         ]_vars

\* a second publish of the draft that was rejected at version 0 has been
\* answered 409 as well; its op is still in the draft
C37_Witness ==
    /\ session.error = ConflictError(0, 1)
    /\ session.draft.baseVersion = 0
    /\ Len(session.draft.patchOps) > 0
    /\ \E c \in InFlight : put[c].pc = "done" /\ put[c].status = 409 /\ put[c].baseVersion = 0

\* ids of the entries of a list
IdsOf(items) == {items[k].id : k \in 1..Len(items)}

\* C36: when a publish has been answered 200, the preview of the sent draft
\* over the held snapshot has the event ids and lane ids of the returned
\* snapshot, and each event has the returned lane, title, start and end.
C36_PreviewIsCanonical ==
    \A c \in InFlight :
        (put[c].pc = "done" /\ put[c].status = 200) =>
            LET ops == session.publish[c].draft.patchOps
                shownEvents == displayEvents(session.timeline, ops)
                shownLanes == displayLanes(session.timeline, ops)
                data == put[c].response
            IN  /\ IdsOf(shownEvents) = DOMAIN data.events
                /\ IdsOf(shownLanes) = DOMAIN data.lanes
                /\ \A k \in 1..Len(shownEvents) :
                      LET e == shownEvents[k]
                      IN  e.id \in DOMAIN data.events =>
                            /\ e.laneId = data.events[e.id].laneId
                            /\ e.title = data.events[e.id].title
                            /\ e.startUtc = data.events[e.id].startUtc
                            /\ e.endUtc = data.events[e.id].endUtc

\* the op list holds no delete_lane
NoLaneDelete(ops) == \A k \in 1..Len(ops) : ops[k].op # "delete_lane"

\* C36 (amended): when a publish has been answered 200, the previewed lane
\* ids are those of the returned snapshot, and for a draft without a
\* delete_lane op the previewed event ids and each event's lane, title,
\* start and end are those of the returned snapshot.
C36_PreviewIsCanonicalWithoutLaneDelete ==
    \A c \in InFlight :
        (put[c].pc = "done" /\ put[c].status = 200) =>
            LET ops == session.publish[c].draft.patchOps
                shownEvents == displayEvents(session.timeline, ops)
                shownLanes == displayLanes(session.timeline, ops)
                data == put[c].response
            IN  /\ IdsOf(shownLanes) = DOMAIN data.lanes
                /\ NoLaneDelete(ops) =>
                      /\ IdsOf(shownEvents) = DOMAIN data.events
                      /\ \A k \in 1..Len(shownEvents) :
                            LET e == shownEvents[k]
                            IN  /\ e.laneId = data.events[e.id].laneId
                                /\ e.title = data.events[e.id].title
                                /\ e.startUtc = data.events[e.id].startUtc
                                /\ e.endUtc = data.events[e.id].endUtc

\* a draft that moves e1 to the end of the window and retitles it has been
\* published and answered 200
C36_Witness ==
    /\ "c1" \in InFlight
    /\ put["c1"].pc = "done" /\ put["c1"].status = 200
    /\ LET ops == session.publish["c1"].draft.patchOps
       IN  /\ Len(ops) = 2
           /\ ops[1].op = "update_event_time"
           /\ ops[2].op = "update_event_title"
           /\ put["c1"].response.events["e1"].endUtc = WE
           /\ put["c1"].response.events["e1"].title = "t2"

====
